---- MODULE Spec2Model ----
(***************************************************************************)
(* webcap: the DevTools-protocol client of src/webcap.                     *)
(*                                                                         *)
(* Spec        the request multiplexer of Browser (request, handle_event,  *)
(*             _message_handler, stop) driven by concurrent request()      *)
(*             calls and by an engine that answers and emits frames in any *)
(*             order.                                                      *)
(* SpecTab     tabs created, fed events through the pump and closed.       *)
(* SpecSettle  the settle loop of Tab.wait_for_page_load against a clock.  *)
(* SpecShot    Browser.screenshot for a batch of URLs under task_pool.     *)
(*                                                                         *)
(* asyncio runs one task at a time and switches tasks only at an await     *)
(* that suspends, so every action below is the code between two such       *)
(* awaits.                                                                 *)
(***************************************************************************)
EXTENDS Integers, Sequences, FiniteSets, TLC

\* ------------------------------------------------------------- bounds
\* Ids the direct callers of request() may allocate in one run of Spec.
MaxId == 3
\* Frames the engine has written and the pump has not read yet.
MaxChan == 2
\* Event frames the engine emits in one run of Spec, of SpecTab.
MaxEvents == 1
MaxTabEvents == 2
\* Frames the engine answers a second time in one run.
MaxRepeats == 1
\* SpecPool: length of the argument list, and `threads`.
MaxArgs == 3
MaxThreads == 3
\* SpecSettle: ticks that may pass between Tab() and the start of the settle
\* loop; ticks by which the loop's sleeps may overrun in all.
MaxLead == 3
MaxLate == 1

\* ---------------------------------------------------- program constants
\* browser.py:218  retries = 7 (retry=True); browser.py:214 retries = 1
RetriesWithRetry == 7
RetriesDefault == 1
\* browser.py:215  retry_delay = 0.1, in units of 100 ms
InitialRetryDelay == 1
\* tab.py:199  "> 1" second, in ticks of 100 ms (tab.py:200-201)
QuietTicks == 10

\* ------------------------------------------------------------- domains
\* Tasks that call Browser.request() directly.
Callers == {"c1", "c2"}
\* Tab objects; each tab's handle_events task calls request() too.
Tabs == {"t1", "t2"}
WorkerOf == [t \in Tabs |-> IF t = "t1" THEN "w1" ELSE "w2"]
Workers == {WorkerOf[t] : t \in Tabs}
\* The tasks Browser.stop creates to close the registered tabs (browser.py:378).
CloserOf == [t \in Tabs |-> IF t = "t1" THEN "x1" ELSE "x2"]
Closers == {CloserOf[t] : t \in Tabs}
Threads == Callers \cup Tabs \cup Workers \cup Closers
\* Ids the engine hands out for targets and sessions.
TargetIds == {"T1", "T2"}

None == "None"
\* Session ids the engine may put on an event frame.
SessionIds == {"s1", "s2"}
\* Event methods: the load event, one whose handling awaits a follow-up call
\* (tab.py:167), and one of the two benign detachment events of browser.py:196.
EventMethods == {"Page.loadEventFired", "Network.responseReceived", "Inspector.detached"}
TabEventMethods == {"Page.loadEventFired", "Network.responseReceived"}
BenignMethods == {"Inspector.detached", "Page.frameDetached"}

VARIABLES
    \* Browser fields (browser.py:114-131)
    websocket,            \* "None" | "open"
    commands_loaded,      \* self._commands exists (set by _enum_commands)
    pending_requests,     \* message id -> future (a future is its index in futures)
    event_queues,         \* session id -> the tab whose queue is registered
    tabs,                 \* target id -> tab
    closed,               \* self._closed
    current_message_id,   \* self._current_message_id
    orphaned_session,
    pump,                 \* position of the _message_handler task
    \* asyncio.Future objects created by request(), in creation order
    futures,
    \* request() frames of the calling tasks
    req,
    \* the duplex channel: frames written by request(), frames the engine wrote
    sent,
    channel,
    conn_closed,
    \* observation: ids in the order _next_message_id handed them out, each with
    \* whether stop() had finished by then
    allocated,
    \* observation: number of event frames the engine has emitted, the ids it
    \* has answered, the number of repeated answers
    nevents,
    answered,
    nrepeats,
    \* Tab objects (tab.py:12-27) and their event-handler tasks
    tab,                  \* per tab: position in new_tab/close, tab_id, session_id, ...
    queue,                \* per tab: Tab._incoming_event_queue
    worker,               \* per tab: position of the handle_events task
    tab_lock,             \* Browser._tab_lock: its holder, or None
    closer,               \* per tab: the close task stop() made for it
    \* observation: per tab, the event frames put on its queue / handled; the
    \* event frames handle_event dropped
    delivered,
    dropped,
    handled,
    \* observation: the tabs for which Tab.close has asked Target.closeTarget
    close_issued,
    \* Tab.wait_for_page_load (tab.py:194-202) against a clock of 100 ms ticks
    settle,
    \* Browser.screenshot tasks (browser.py:137-149), one per URL, and the
    \* task_pool that runs them (helpers.py:21-50)
    shot,
    pool,
    \* task_pool on its own (helpers.py:21-50): the generator's locals, and the
    \* worker invocations it has started, in the order it started them
    tp,
    inv,
    \* Browser.stop called by the owner (browser.py:371-433, 548-549): its
    \* position and the number of calls made
    stopper,
    \* self.chrome_process (browser.py:72, 308): "none" | "running" | "exited"
    chrome,
    \* self.temp_dir exists (browser.py:78-79)
    temp_dir,
    \* observation: the shutdown steps taken, each with the stop() run that took it
    shutdown,
    \* WebScreenshot of one tab (webscreenshot.py:14-27): url, navigation_history
    webscreenshot,
    \* the Browser's capture options (browser.py:89-98)
    options,
    \* observation: what the event handlers have added to the record, each
    \* with the type it was added under
    created,
    \* the keys of the dict WebScreenshot.json() returned, empty before it has
    projection,
    \* per tab: position of a Tab.wait_for_finish() call (tab.py:209-211)
    finisher,
    \* a sanitize_filename call (helpers.py:86-95): its argument, a string as the
    \* sequence of its characters, its position and what it returned
    naming,
    \* observation: per tab, the positions in handled of the events whose
    \* handling raised (tab.py:77)
    raises,
    \* Browser._start_chrome (browser.py:294-333): its position, the child
    \* process, whether /json/version is served, websocket_uri, and the number
    \* of polls made (an observation that stops counting at MaxPolls)
    startup,
    \* observation: the document responses add_response has recorded, as received
    recorded,
    \* observation: the document responses handed to add_response, in the
    \* order handled, each with whether its handling ran to the end
    hops

lifeVars == <<websocket, commands_loaded, closed, pump, conn_closed>>
mapVars == <<event_queues, tabs, orphaned_session>>
idVars == <<current_message_id, allocated>>
inVars == <<channel, nevents, answered, nrepeats>>
muxVars == <<lifeVars, mapVars, idVars, inVars, pending_requests, futures, req, sent>>

tabVars == <<tab, queue, worker, tab_lock, closer, delivered, dropped, close_issued, handled>>

settleVars == <<settle>>
shotVars == <<shot, pool>>

poolVars == <<tp, inv>>
stopVars == <<stopper, chrome, temp_dir, shutdown>>
outVars == <<projection, finisher, naming, raises, startup>>
recVars == <<webscreenshot, recorded, hops, options, created, outVars>>

vars == <<muxVars, tabVars, settleVars, shotVars, poolVars, stopVars, recVars>>

\* ------------------------------------------------------------- helpers
Range(s) == {s[i] : i \in 1..Len(s)}
\* dict.values()
Range2(d) == {d[k] : k \in DOMAIN d}

\* dict.pop(key, None) / del dict[key]
Pop(d, k) == [x \in (DOMAIN d) \ {k} |-> d[x]]
\* A faulty assignment that stores nothing; C29 must notice it.
PutNothing(d, k, v) == d
\* dict[key] = value
Put(d, k, v) == [x \in (DOMAIN d) \cup {k} |-> IF x = k THEN v ELSE d[x]]
EmptyMap == [x \in {} |-> None]

\* slept is an observation: the time the call has spent in asyncio.sleep
\* (browser.py:236), in units of 100 ms.
IdleReq == [pc |-> "idle", id |-> -1, fut |-> 0, left |-> 0, delay |-> 0,
            supported |-> TRUE, method |-> "", sessionId |-> None,
            out |-> "", val |-> None, slept |-> 0]

ResponseFrame(i, err, v) ==
    [kind |-> "response", id |-> i, error |-> err, val |-> v, method |-> "", sessionId |-> None]
EventFrame(m, s) ==
    [kind |-> "event", id |-> -1, error |-> FALSE, val |-> None, method |-> m, sessionId |-> s]
UnknownFrame ==
    [kind |-> "unknown", id |-> -1, error |-> FALSE, val |-> None, method |-> "", sessionId |-> None]

\* asyncio.Future.done()
Done(f) == futures[f].state # "pending"

\* ---------------------------------------------------------------- Init
\* Browser.__init__ (browser.py:114-131): nothing started, every map empty.
InitMux ==
    /\ websocket = None
    /\ commands_loaded = FALSE
    /\ pending_requests = EmptyMap
    /\ event_queues = EmptyMap
    /\ tabs = EmptyMap
    /\ closed = FALSE
    /\ current_message_id = 0
    /\ orphaned_session = FALSE
    /\ pump = "none"
    /\ futures = <<>>
    /\ req = [th \in Threads |-> IdleReq]
    /\ sent = <<>>
    /\ channel = <<>>
    /\ conn_closed = FALSE
    /\ allocated = <<>>
    /\ nevents = 0
    /\ answered = {}
    /\ nrepeats = 0

NewTab == [pc |-> "new", tab_id |-> None, session_id |-> None, closed |-> FALSE,
           page_loaded |-> FALSE, exc |-> ""]
IdleWorker == [pc |-> "none", event |-> UnknownFrame]

\* Tab.__init__ (tab.py:12-27) for the Tab objects that will be made.
InitTabs ==
    /\ tab = [t \in Tabs |-> NewTab]
    /\ queue = [t \in Tabs |-> <<>>]
    /\ worker = [t \in Tabs |-> IdleWorker]
    /\ tab_lock = None
    /\ closer = [t \in Tabs |-> "none"]
    /\ delivered = [t \in Tabs |-> <<>>]
    /\ dropped = <<>>
    /\ close_issued = {}
    /\ handled = [t \in Tabs |-> <<>>]

\* --------------------------------------------------------------- start
\* Browser.start: _start_chrome opens the websocket and _enum_commands fills
\* the capability table; _start_message_handler creates the pump task.
start ==
    /\ pump = "none"
    /\ websocket = None
    /\ ~closed
    /\ websocket' = "open"
    /\ commands_loaded' = TRUE
    /\ pump' = "recv"
    /\ chrome' = "running"
    /\ UNCHANGED <<mapVars, idVars, inVars, closed, conn_closed, pending_requests, futures, req, sent, tabVars>>
    /\ UNCHANGED <<settleVars, shotVars, poolVars, recVars, stopper, temp_dir, shutdown>>

\* ------------------------------------------------------------- request
\* The frame of a request() call on entry (browser.py:213-219).
EnterRequest(m, supp, sid, retry) ==
    [IdleReq EXCEPT !.pc = "alloc",
                    !.left = IF retry THEN RetriesWithRetry ELSE RetriesDefault,
                    !.delay = InitialRetryDelay,
                    !.supported = supp, !.method = m, !.sessionId = sid]

\* A faulty counter that hands out the same id again; C2 must notice it.
NextCounterStuck(c) == c

\* browser.py:501  self._current_message_id += 1
NextCounter(c) == c + 1

\* Browser._next_message_id (browser.py:498-502), called at browser.py:221. The
\* lock's body has no await, so read and increment are one step; the await of
\* the call itself is kept as a point where other tasks may run.
next_message_id(th) ==
    /\ req[th].pc = "alloc"
    /\ req' = [req EXCEPT ![th].id = current_message_id, ![th].pc = "send"]
    /\ current_message_id' = NextCounter(current_message_id)
    /\ allocated' = Append(allocated, [id |-> current_message_id, stopped |-> closed])
    /\ UNCHANGED <<lifeVars, mapVars, inVars, pending_requests, futures, sent, tabVars>>
    /\ UNCHANGED <<settleVars, shotVars, poolVars, stopVars, recVars>>

\* A faulty check that lets every command through; C17 must notice it.
SupportedAlways(th) == TRUE

\* Browser._build_request (browser.py:244-253): domain and subcommand are
\* both in self._commands.
Supported(th) == req[th].supported

NewFuture(th) ==
    [state |-> "pending", id |-> req[th].id, val |-> None, by |-> <<>>]

\* browser.py:223-228: create the future, register it, build the frame, send
\* it. _build_request (242-256) and _send_request (258-262) raise before
\* anything is written; websocket.send raises on a closed connection.
request_send(th) ==
    LET id == req[th].id
        f == Len(futures) + 1
        registered == Put(pending_requests, id, f)
    IN
    /\ req[th].pc = "send"
    /\ futures' = Append(futures, NewFuture(th))
    /\ IF ~commands_loaded
         THEN \* self._commands does not exist before start(): AttributeError
              /\ pending_requests' = registered
              /\ req' = [req EXCEPT ![th].pc = "raised", ![th].out = "AttributeError",
                                    ![th].fut = f]
              /\ sent' = sent
         ELSE IF ~Supported(th)
         THEN \* DevToolsProtocolError, caught at browser.py:231-237
              /\ pending_requests' = Pop(registered, id)
              /\ req' = [req EXCEPT ![th].pc = "sleep", ![th].fut = f]
              /\ sent' = sent
         ELSE IF websocket = None
         THEN \* WebCapError (browser.py:259-261) is not caught by request()
              /\ pending_requests' = registered
              /\ req' = [req EXCEPT ![th].pc = "raised", ![th].out = "WebCapError",
                                    ![th].fut = f]
              /\ sent' = sent
         ELSE IF conn_closed
         THEN \* websockets.ConnectionClosed from websocket.send
              /\ pending_requests' = registered
              /\ req' = [req EXCEPT ![th].pc = "raised", ![th].out = "ConnectionClosed",
                                    ![th].fut = f]
              /\ sent' = sent
         ELSE /\ pending_requests' = registered
              /\ sent' = Append(sent, [id |-> id, method |-> req[th].method,
                                       sessionId |-> req[th].sessionId])
              /\ req' = [req EXCEPT ![th].pc = "wait", ![th].fut = f]
    /\ UNCHANGED <<lifeVars, mapVars, idVars, inVars, tabVars>>
    /\ UNCHANGED <<settleVars, shotVars, poolVars, stopVars, recVars>>

\* browser.py:229-230: the future has a result; request() returns it.
request_result(th) ==
    /\ req[th].pc = "wait"
    /\ futures[req[th].fut].state = "result"
    /\ req' = [req EXCEPT ![th].pc = "returned", ![th].out = "result",
                          ![th].val = futures[req[th].fut].val]
    /\ UNCHANGED <<lifeVars, mapVars, idVars, inVars, pending_requests, futures, sent, tabVars>>
    /\ UNCHANGED <<settleVars, shotVars, poolVars, stopVars, recVars>>

\* browser.py:231-232: the future holds DevToolsProtocolError.
request_protocol_error(th) ==
    /\ req[th].pc = "wait"
    /\ futures[req[th].fut].state = "protocol_error"
    /\ pending_requests' = Pop(pending_requests, req[th].id)
    /\ req' = [req EXCEPT ![th].pc = "sleep"]
    /\ UNCHANGED <<lifeVars, mapVars, idVars, inVars, futures, sent, tabVars>>
    /\ UNCHANGED <<settleVars, shotVars, poolVars, stopVars, recVars>>

\* The future holds stop()'s WebCapError (browser.py:425), which
\* `except DevToolsProtocolError` does not catch.
request_stopped(th) ==
    /\ req[th].pc = "wait"
    /\ futures[req[th].fut].state = "stopped_error"
    /\ req' = [req EXCEPT ![th].pc = "raised", ![th].out = "WebCapError"]
    /\ UNCHANGED <<lifeVars, mapVars, idVars, inVars, pending_requests, futures, sent, tabVars>>
    /\ UNCHANGED <<settleVars, shotVars, poolVars, stopVars, recVars>>

\* A faulty request() that treats the timeout like a protocol error and tries
\* again; C21 must notice it.
request_timeout_retried(th) ==
    /\ req[th].pc = "wait"
    /\ futures[req[th].fut].state = "pending"
    /\ futures' = [futures EXCEPT ![req[th].fut].state = "cancelled"]
    /\ req' = [req EXCEPT ![th].pc = "sleep"]
    /\ UNCHANGED <<lifeVars, mapVars, idVars, inVars, pending_requests, sent, tabVars>>
    /\ UNCHANGED <<settleVars, shotVars, poolVars, stopVars, recVars>>

\* browser.py:229: asyncio.wait_for gives up after self.timeout: it cancels
\* the future and raises TimeoutError, which request() does not catch.
request_timeout(th) ==
    /\ req[th].pc = "wait"
    /\ futures[req[th].fut].state = "pending"
    /\ futures' = [futures EXCEPT ![req[th].fut].state = "cancelled"]
    /\ req' = [req EXCEPT ![th].pc = "raised", ![th].out = "TimeoutError"]
    /\ UNCHANGED <<lifeVars, mapVars, idVars, inVars, pending_requests, sent, tabVars>>
    /\ UNCHANGED <<settleVars, shotVars, poolVars, stopVars, recVars>>

\* A faulty back-off that waits the same time again; C19 must notice it.
NextDelayKept(d) == d

\* browser.py:237  retry_delay *= 2
NextDelay(d) == 2 * d

\* browser.py:236-240: sleep retry_delay, double it, then the next iteration
\* of `for _ in range(retries)` or, after the last, return the error dict.
request_sleep(th) ==
    /\ req[th].pc = "sleep"
    /\ req' = [req EXCEPT ![th].delay = NextDelay(@),
                          ![th].slept = @ + req[th].delay,
                          ![th].left = @ - 1,
                          ![th].pc = IF req[th].left - 1 > 0 THEN "alloc" ELSE "returned",
                          ![th].out = IF req[th].left - 1 > 0 THEN "" ELSE "errdict"]
    /\ UNCHANGED <<lifeVars, mapVars, idVars, inVars, pending_requests, futures, sent, tabVars>>
    /\ UNCHANGED <<settleVars, shotVars, poolVars, stopVars, recVars>>

request_step(th) ==
    \/ request_send(th)
    \/ request_result(th)
    \/ request_protocol_error(th)
    \/ request_stopped(th)
    \/ request_timeout(th)
    \/ request_sleep(th)

\* ------------------------------------------------------------- callers
\* Which callers pass retry=True (as tab.py:167 does).
Retrying == {"c2"}

\* A task calls browser.request(command, retry=...) with a command that is or
\* is not in the capability table.
caller_request(c) ==
    /\ req[c].pc = "idle"
    /\ \E supp \in BOOLEAN :
          req' = [req EXCEPT ![c] =
                     EnterRequest("Target.getTargets", supp, None, c \in Retrying)]
    /\ UNCHANGED <<lifeVars, mapVars, idVars, inVars, pending_requests, futures, sent, tabVars>>
    /\ UNCHANGED <<settleVars, shotVars, poolVars, stopVars, recVars>>

\* -------------------------------------------------------------- engine
\* What the engine puts in the result of a command: a target id or a session
\* id it has not handed out before, named in the order it makes them.
Fresh(ids, used) == IF ids \ used = {} THEN ids ELSE {CHOOSE v \in ids \ used : TRUE}

ResultValues(m) ==
    IF m = "Target.createTarget" THEN Fresh(TargetIds, {tab[t].tab_id : t \in Tabs})
    ELSE IF m = "Target.attachToTarget" THEN Fresh(SessionIds, {tab[t].session_id : t \in Tabs})
    ELSE {None}

\* The engine answers a frame it was sent, with a result or an error, in any
\* order.
engine_respond ==
    /\ ~conn_closed
    /\ Len(channel) < MaxChan
    /\ \E i \in 1..Len(sent), err \in BOOLEAN :
          /\ sent[i].id \notin answered
          /\ answered' = answered \cup {sent[i].id}
          /\ \E v \in (IF err THEN {None} ELSE ResultValues(sent[i].method)) :
                channel' = Append(channel, ResponseFrame(sent[i].id, err, v))
    /\ UNCHANGED <<lifeVars, mapVars, idVars, nevents, nrepeats, pending_requests, futures,
                   req, sent, tabVars>>
    /\ UNCHANGED <<settleVars, shotVars, poolVars, stopVars, recVars>>

\* The engine answers a frame a second time.
engine_repeat ==
    /\ ~conn_closed
    /\ Len(channel) < MaxChan
    /\ nrepeats < MaxRepeats
    /\ nrepeats' = nrepeats + 1
    /\ \E i \in 1..Len(sent), err \in BOOLEAN :
          /\ sent[i].id \in answered
          /\ channel' = Append(channel, ResponseFrame(sent[i].id, err, None))
    /\ UNCHANGED <<lifeVars, mapVars, idVars, nevents, answered, pending_requests, futures,
                   req, sent, tabVars>>
    /\ UNCHANGED <<settleVars, shotVars, poolVars, stopVars, recVars>>

\* The engine emits an event, for some session or for none. Each event frame
\* carries its serial number, so two frames are never confused.
engine_event(methods, sessions) ==
    /\ websocket = "open"
    /\ ~conn_closed
    /\ Len(channel) < MaxChan
    /\ nevents' = nevents + 1
    /\ \E m \in methods, s \in sessions :
          channel' = Append(channel, [EventFrame(m, s) EXCEPT !.val = nevents + 1])
    /\ UNCHANGED <<lifeVars, mapVars, idVars, answered, nrepeats, pending_requests, futures, req,
                   sent, tabVars>>
    /\ UNCHANGED <<settleVars, shotVars, poolVars, stopVars, recVars>>

\* A frame with neither "id" nor "method".
engine_unknown ==
    /\ websocket = "open"
    /\ ~conn_closed
    /\ Len(channel) < MaxChan
    /\ nevents' = nevents + 1
    /\ channel' = Append(channel, UnknownFrame)
    /\ UNCHANGED <<lifeVars, mapVars, idVars, answered, nrepeats, pending_requests, futures, req,
                   sent, tabVars>>
    /\ UNCHANGED <<settleVars, shotVars, poolVars, stopVars, recVars>>

\* The engine exits or drops the connection.
engine_close ==
    /\ websocket = "open"
    /\ ~conn_closed
    /\ conn_closed' = TRUE
    /\ UNCHANGED <<websocket, commands_loaded, closed, pump, mapVars, idVars, inVars,
                   pending_requests, futures, req, sent, tabVars>>
    /\ UNCHANGED <<settleVars, shotVars, poolVars, stopVars, recVars>>

\* -------------------------------------------------------- handle_event
\* A faulty lookup that takes the awaiter registered just before; C1 must
\* notice it.
LookupKeyBefore(frame) == frame.id - 1

\* browser.py:170-171  the key handle_event looks up for a response frame
LookupKey(frame) == frame.id

\* Browser.handle_event, response branch (browser.py:169-180): whether
\* future.set_exception raises InvalidStateError (the future is done already;
\* only set_result is under suppress).
ResponseRaises(frame) ==
    /\ LookupKey(frame) \in DOMAIN pending_requests
    /\ frame.error
    /\ Done(pending_requests[LookupKey(frame)])

FuturesAfterResponse(frame) ==
    LET k == LookupKey(frame) IN
    IF k \notin DOMAIN pending_requests THEN futures
    ELSE LET f == pending_requests[k] IN
         IF Done(f) THEN futures
         ELSE [futures EXCEPT ![f].state = IF frame.error THEN "protocol_error" ELSE "result",
                              ![f].val = frame.val,
                              ![f].by = Append(@, frame.id)]

PendingAfterResponse(frame) ==
    IF LookupKey(frame) \in DOMAIN pending_requests /\ ~ResponseRaises(frame)
    THEN Pop(pending_requests, LookupKey(frame))
    ELSE pending_requests

\* A faulty routing that takes some registered queue; C4 must notice it.
QueueForSome(frame) == event_queues[CHOOSE s \in DOMAIN event_queues : TRUE]

\* browser.py:192-193  the queue an event frame is put on
QueueFor(frame) == event_queues[frame.sessionId]

\* Browser.handle_event, event branch (browser.py:183-199).
Routed(frame) == frame.sessionId # None /\ frame.sessionId \in DOMAIN event_queues

handle_event(frame) ==
    /\ futures' = IF frame.kind = "response" THEN FuturesAfterResponse(frame) ELSE futures
    /\ pending_requests' = IF frame.kind = "response" THEN PendingAfterResponse(frame)
                           ELSE pending_requests
    /\ IF frame.kind = "event" /\ Routed(frame)
         THEN /\ queue' = [queue EXCEPT ![QueueFor(frame)] = Append(@, frame)]
              /\ delivered' = [delivered EXCEPT ![QueueFor(frame)] = Append(@, frame)]
         ELSE UNCHANGED <<queue, delivered>>
    /\ dropped' = IF frame.kind = "event" /\ ~Routed(frame) THEN Append(dropped, frame)
                  ELSE dropped
    /\ orphaned_session' =
          IF /\ frame.kind = "event" /\ frame.sessionId # None /\ ~Routed(frame)
             /\ frame.method \notin BenignMethods
          THEN TRUE ELSE orphaned_session

\* A faulty pump in which the KeyError of an unregistered session escapes
\* handle_event; C5 must notice it.
PumpAfterUncaught(frame) ==
    IF \/ frame.kind = "response" /\ ResponseRaises(frame)
       \/ frame.kind = "event" /\ frame.sessionId # None /\ ~Routed(frame)
    THEN "stopping" ELSE "recv"

\* browser.py:356-369: the loop goes on unless handle_event raised.
PumpAfter(frame) ==
    IF frame.kind = "response" /\ ResponseRaises(frame) THEN "stopping" ELSE "recv"

\* Browser._message_handler (browser.py:350-369): one iteration of the loop.
\* An exception out of handle_event ends the loop and runs stop().
message_handler_recv ==
    /\ pump = "recv"
    /\ websocket = "open" /\ ~closed
    /\ channel # <<>>
    /\ channel' = Tail(channel)
    /\ handle_event(Head(channel))
    /\ pump' = PumpAfter(Head(channel))
    /\ UNCHANGED <<websocket, commands_loaded, closed, conn_closed, event_queues, tabs,
                   idVars, nevents, answered, nrepeats, req, sent, tab, worker, tab_lock,
                   closer, close_issued, handled>>
    /\ UNCHANGED <<settleVars, shotVars, poolVars, stopVars, recVars>>

\* websocket.recv() raises ConnectionClosed once the buffered frames are read.
message_handler_closed ==
    /\ pump = "recv"
    /\ conn_closed
    /\ channel = <<>>
    /\ pump' = "stopping"
    /\ UNCHANGED <<websocket, commands_loaded, closed, conn_closed, mapVars, idVars, inVars,
                   pending_requests, futures, req, sent, tabVars>>
    /\ UNCHANGED <<settleVars, shotVars, poolVars, stopVars, recVars>>

\* ----------------------------------------------------------------- Tab
\* Browser option `responses` (browser.py:65, 91): response bodies are fetched.
capture_responses == TRUE

\* Tab.create (tab.py:29-32): start the event handler task and wait for it.
tab_create(t) ==
    /\ tab[t].pc = "new"
    /\ worker[t].pc = "none"
    /\ worker' = [worker EXCEPT ![t].pc = "start"]
    /\ tab' = [tab EXCEPT ![t].pc = "wait_started"]
    /\ UNCHANGED <<muxVars, queue, tab_lock, closer, delivered, dropped, close_issued, handled>>
    /\ UNCHANGED <<settleVars, shotVars, poolVars, stopVars, recVars>>

\* Tab.handle_events (tab.py:69): the task sets _event_handler_started.
worker_start(t) ==
    /\ worker[t].pc = "start"
    /\ worker' = [worker EXCEPT ![t].pc = "get"]
    /\ UNCHANGED <<muxVars, tab, queue, tab_lock, closer, delivered, dropped, close_issued, handled>>
    /\ UNCHANGED <<settleVars, shotVars, poolVars, stopVars, recVars>>

\* tab.py:33-36: take the tab lock and ask for a target.
tab_create_target(t) ==
    /\ tab[t].pc = "wait_started"
    /\ worker[t].pc \notin {"none", "start"}
    /\ tab_lock = None
    /\ req[t].pc = "idle"
    /\ tab_lock' = t
    /\ req' = [req EXCEPT ![t] = EnterRequest("Target.createTarget", TRUE, None, FALSE)]
    /\ tab' = [tab EXCEPT ![t].pc = "createTarget"]
    /\ UNCHANGED <<lifeVars, mapVars, idVars, inVars, pending_requests, futures, sent,
                   queue, worker, closer, delivered, dropped, close_issued, handled>>
    /\ UNCHANGED <<settleVars, shotVars, poolVars, stopVars, recVars>>

\* tab.py:37-40: register the tab under its target id and ask to attach. An
\* error dict from request() has no "targetId": KeyError ends create().
tab_created(t) ==
    /\ tab[t].pc = "createTarget"
    /\ req[t].pc = "returned"
    /\ IF req[t].out = "result"
         THEN /\ tab' = [tab EXCEPT ![t].tab_id = req[t].val, ![t].pc = "attach"]
              /\ tabs' = Put(tabs, req[t].val, t)
              /\ req' = [req EXCEPT ![t] =
                            EnterRequest("Target.attachToTarget", TRUE, None, FALSE)]
              /\ UNCHANGED tab_lock
         ELSE /\ tab' = [tab EXCEPT ![t].pc = "failed", ![t].exc = "KeyError"]
              /\ req' = [req EXCEPT ![t] = IdleReq]
              /\ tab_lock' = None
              /\ UNCHANGED tabs
    /\ UNCHANGED <<lifeVars, event_queues, orphaned_session, idVars, inVars,
                   pending_requests, futures, sent, queue, worker, closer, delivered, dropped, close_issued, handled>>
    /\ UNCHANGED <<settleVars, shotVars, poolVars, stopVars, recVars>>

\* tab.py:41-44: register the queue under the session id, release the lock,
\* enable the Page domain.
tab_attached(t) ==
    /\ tab[t].pc = "attach"
    /\ req[t].pc = "returned"
    /\ tab_lock' = None
    /\ IF req[t].out = "result"
         THEN /\ tab' = [tab EXCEPT ![t].session_id = req[t].val, ![t].pc = "pageEnable"]
              /\ event_queues' = Put(event_queues, req[t].val, t)
              /\ req' = [req EXCEPT ![t] =
                            EnterRequest("Page.enable", TRUE, req[t].val, FALSE)]
         ELSE /\ tab' = [tab EXCEPT ![t].pc = "failed", ![t].exc = "KeyError"]
              /\ req' = [req EXCEPT ![t] = IdleReq]
              /\ UNCHANGED event_queues
    /\ UNCHANGED <<lifeVars, tabs, orphaned_session, idVars, inVars,
                   pending_requests, futures, sent, queue, worker, closer, delivered, dropped, close_issued, handled>>
    /\ UNCHANGED <<settleVars, shotVars, poolVars, stopVars, recVars>>

\* tab.py:44-45: Page.enable returned (whatever it returned); Network.enable.
tab_page_enabled(t) ==
    /\ tab[t].pc = "pageEnable"
    /\ req[t].pc = "returned"
    /\ tab' = [tab EXCEPT ![t].pc = "netEnable"]
    /\ req' = [req EXCEPT ![t] =
                  EnterRequest("Network.enable", TRUE, tab[t].session_id, FALSE)]
    /\ UNCHANGED <<lifeVars, mapVars, idVars, inVars, pending_requests, futures, sent,
                   queue, worker, tab_lock, closer, delivered, dropped, close_issued, handled>>
    /\ UNCHANGED <<settleVars, shotVars, poolVars, stopVars, recVars>>

\* tab.py:45-47: create() is over (javascript capture is off).
tab_net_enabled(t) ==
    /\ tab[t].pc = "netEnable"
    /\ req[t].pc = "returned"
    /\ tab' = [tab EXCEPT ![t].pc = "live"]
    /\ req' = [req EXCEPT ![t] = IdleReq]
    /\ UNCHANGED <<lifeVars, mapVars, idVars, inVars, pending_requests, futures, sent,
                   queue, worker, tab_lock, closer, delivered, dropped, close_issued, handled>>
    /\ UNCHANGED <<settleVars, shotVars, poolVars, stopVars, recVars>>

\* A request of create() raised (timeout, stopped browser): create() raises
\* and `async with self.browser._tab_lock` releases the lock.
tab_create_raised(t) ==
    /\ tab[t].pc \in {"createTarget", "attach", "pageEnable", "netEnable"}
    /\ req[t].pc = "raised"
    /\ tab' = [tab EXCEPT ![t].pc = "failed", ![t].exc = req[t].out]
    /\ req' = [req EXCEPT ![t] = IdleReq]
    /\ tab_lock' = IF tab_lock = t THEN None ELSE tab_lock
    /\ UNCHANGED <<lifeVars, mapVars, idVars, inVars, pending_requests, futures, sent,
                   queue, worker, closer, delivered, dropped, close_issued, handled>>
    /\ UNCHANGED <<settleVars, shotVars, poolVars, stopVars, recVars>>

\* A faulty close() that leaves the queue registered under the session id;
\* C27 must notice it.
close_begin_queue_kept(th, t) ==
    /\ req[th].pc = "idle"
    /\ tabs' = Pop(tabs, tab[t].tab_id)
    /\ req' = [req EXCEPT ![th] = EnterRequest("Target.closeTarget", TRUE, None, FALSE)]
    /\ close_issued' = close_issued \cup {t}
    /\ UNCHANGED <<lifeVars, event_queues, orphaned_session, idVars, inVars, pending_requests,
                   futures, sent, queue, worker, tab_lock, delivered, dropped, handled>>
    /\ UNCHANGED <<settleVars, shotVars, poolVars, stopVars, recVars>>

\* Tab.close (tab.py:213-220), run by task th on tab t: drop both
\* registrations, then ask the engine to close the target.
close_begin(th, t) ==
    /\ req[th].pc = "idle"
    /\ tabs' = Pop(tabs, tab[t].tab_id)
    /\ event_queues' = Pop(event_queues, tab[t].session_id)
    /\ req' = [req EXCEPT ![th] = EnterRequest("Target.closeTarget", TRUE, None, FALSE)]
    /\ close_issued' = close_issued \cup {t}
    /\ UNCHANGED <<lifeVars, orphaned_session, idVars, inVars, pending_requests, futures,
                   sent, queue, worker, tab_lock, delivered, dropped, handled>>
    /\ UNCHANGED <<settleVars, shotVars, poolVars, stopVars, recVars>>

\* tab.py:221-225: request() returned; mark the tab closed and cancel a
\* handler task that is waiting on the empty queue (tab.py:73-74).
close_end(th, t) ==
    /\ req[th].pc = "returned"
    /\ req' = [req EXCEPT ![th] = IdleReq]
    /\ worker' = [worker EXCEPT ![t].pc =
                     IF worker[t].pc = "get" /\ queue[t] = <<>> THEN "exited" ELSE @]
    /\ UNCHANGED <<lifeVars, mapVars, idVars, inVars, pending_requests, futures, sent,
                   queue, tab_lock, delivered, dropped, close_issued, handled>>
    /\ UNCHANGED <<settleVars, shotVars, poolVars, stopVars, recVars>>

\* Target.closeTarget raised: close() raises before tab.py:221.
close_raised(th, t) ==
    /\ req[th].pc = "raised"
    /\ req' = [req EXCEPT ![th] = IdleReq]
    /\ UNCHANGED <<lifeVars, mapVars, idVars, inVars, pending_requests, futures, sent,
                   queue, worker, tab_lock, delivered, dropped, close_issued, handled>>
    /\ UNCHANGED <<settleVars, shotVars, poolVars, stopVars, recVars>>

\* The owner of a live tab closes it (browser.py:147-149).
tab_close(t) ==
    /\ tab[t].pc = "live"
    /\ close_begin(t, t)
    /\ tab' = [tab EXCEPT ![t].pc = "closing"]
    /\ UNCHANGED closer

tab_closed(t) ==
    /\ tab[t].pc = "closing"
    /\ close_end(t, t)
    /\ tab' = [tab EXCEPT ![t].closed = TRUE, ![t].pc = "closed"]
    /\ UNCHANGED closer

tab_close_raised(t) ==
    /\ tab[t].pc = "closing"
    /\ close_raised(t, t)
    /\ tab' = [tab EXCEPT ![t].pc = "close_failed"]
    /\ UNCHANGED closer

\* A faulty second close() that drops whatever is registered first in the
\* target map; C28 must notice it.
close_again_pops_other(t) ==
    /\ tab[t].pc = "closed"
    /\ req[t].pc = "idle"
    /\ tabs' = IF DOMAIN tabs = {} THEN tabs
               ELSE Pop(tabs, CHOOSE k \in DOMAIN tabs : TRUE)
    /\ event_queues' = Pop(event_queues, tab[t].session_id)
    /\ req' = [req EXCEPT ![t] = EnterRequest("Target.closeTarget", TRUE, None, FALSE)]
    /\ tab' = [tab EXCEPT ![t].pc = "closing_again", ![t].exc = ""]
    /\ UNCHANGED <<lifeVars, orphaned_session, idVars, inVars, pending_requests, futures,
                   sent, queue, worker, tab_lock, closer, delivered, dropped, close_issued,
                   handled>>
    /\ UNCHANGED <<settleVars, shotVars, poolVars, stopVars, recVars>>

\* Tab.close (tab.py:213-220) called again on a tab that close() has closed:
\* there is no test of _closed, so both pops and the request run again.
tab_close_again(t) ==
    /\ tab[t].pc = "closed"
    /\ close_begin(t, t)
    /\ tab' = [tab EXCEPT ![t].pc = "closing_again", ![t].exc = ""]
    /\ UNCHANGED closer

\* tab.py:221-225 of the second close().
tab_closed_again(t) ==
    /\ tab[t].pc = "closing_again"
    /\ close_end(t, t)
    /\ tab' = [tab EXCEPT ![t].closed = TRUE, ![t].pc = "closed_again"]
    /\ UNCHANGED closer

\* The second Target.closeTarget raised.
tab_close_again_raised(t) ==
    /\ tab[t].pc = "closing_again"
    /\ close_raised(t, t)
    /\ tab' = [tab EXCEPT ![t].pc = "close_again_failed", ![t].exc = req[t].out]
    /\ UNCHANGED closer

\* ------------------------------------------------- Tab.handle_events
\* tab.py:89-90
PageLoadedAfter(t, event) ==
    IF event.method = "Page.loadEventFired" THEN TRUE ELSE tab[t].page_loaded

\* tab.py:95-96, 152-167: handling awaits Network.getResponseBody.
NeedsFollowUp(event) == event.method = "Network.responseReceived" /\ capture_responses

\* tab.py:70: the loop condition, evaluated when an iteration is over.
LoopTop(closedNow) == IF closedNow THEN "exited" ELSE "get"

\* A faulty queue that hands out its newest item; C6 must notice it.
QueueGetLast(q) == [event |-> q[Len(q)], rest |-> SubSeq(q, 1, Len(q) - 1)]

\* tab.py:72  asyncio.Queue.get: the oldest item, removed from the queue
QueueGet(q) == [event |-> Head(q), rest |-> Tail(q)]

\* tab.py:70-76, 83-99: the task gets the next event and handles it up to the
\* first await that suspends.
worker_get(t) ==
    LET event == QueueGet(queue[t]).event w == WorkerOf[t] IN
    /\ worker[t].pc = "get"
    /\ queue[t] # <<>>
    /\ queue' = [queue EXCEPT ![t] = QueueGet(queue[t]).rest]
    /\ tab' = [tab EXCEPT ![t].page_loaded = PageLoadedAfter(t, event)]
    /\ IF NeedsFollowUp(event)
         THEN /\ worker' = [worker EXCEPT ![t] = [pc |-> "followup", event |-> event]]
              /\ req' = [req EXCEPT ![w] = EnterRequest("Network.getResponseBody", TRUE,
                                                      tab[t].session_id, TRUE)]
              /\ UNCHANGED handled
         ELSE /\ worker' = [worker EXCEPT ![t] = [pc |-> LoopTop(tab[t].closed),
                                                 event |-> UnknownFrame]]
              /\ handled' = [handled EXCEPT ![t] = Append(@, event)]
              /\ UNCHANGED req
    /\ UNCHANGED <<lifeVars, mapVars, idVars, inVars, pending_requests, futures, sent,
                   tab_lock, closer, delivered, dropped, close_issued>>
    /\ UNCHANGED <<settleVars, shotVars, poolVars, stopVars, recVars>>

\* A faulty handle_events that lets the exception of handle_event end the
\* task; C36 must notice it.
worker_followup_done_uncaught(t) ==
    LET w == WorkerOf[t] IN
    /\ worker[t].pc = "followup"
    /\ req[w].pc \in {"returned", "raised"}
    /\ req' = [req EXCEPT ![w] = IdleReq]
    /\ handled' = [handled EXCEPT ![t] = Append(@, worker[t].event)]
    /\ raises' = [raises EXCEPT ![t] =
                     IF req[w].pc = "raised" THEN @ \cup {Len(handled[t]) + 1} ELSE @]
    /\ worker' = [worker EXCEPT ![t] =
                     [pc |-> IF req[w].pc = "raised" THEN "exited" ELSE LoopTop(tab[t].closed),
                      event |-> UnknownFrame]]
    /\ UNCHANGED <<lifeVars, mapVars, idVars, inVars, pending_requests, futures, sent,
                   tab, queue, tab_lock, closer, delivered, dropped, close_issued>>
    /\ UNCHANGED <<settleVars, shotVars, poolVars, stopVars>>
    /\ UNCHANGED <<webscreenshot, recorded, hops, options, created, projection, finisher, naming, startup>>

\* tab.py:76-81, 167-175: the follow-up call returned or raised (handle_events
\* catches the exception); the event is handled.
worker_followup_done(t) ==
    LET w == WorkerOf[t] IN
    /\ worker[t].pc = "followup"
    /\ req[w].pc \in {"returned", "raised"}
    /\ req' = [req EXCEPT ![w] = IdleReq]
    /\ handled' = [handled EXCEPT ![t] = Append(@, worker[t].event)]
    /\ raises' = [raises EXCEPT ![t] =
                     IF req[w].pc = "raised" THEN @ \cup {Len(handled[t]) + 1} ELSE @]
    /\ worker' = [worker EXCEPT ![t] = [pc |-> LoopTop(tab[t].closed),
                                        event |-> UnknownFrame]]
    /\ UNCHANGED <<lifeVars, mapVars, idVars, inVars, pending_requests, futures, sent,
                   tab, queue, tab_lock, closer, delivered, dropped, close_issued>>
    /\ UNCHANGED <<settleVars, shotVars, poolVars, stopVars>>
    /\ UNCHANGED <<webscreenshot, recorded, hops, options, created, projection, finisher, naming, startup>>

\* -------------------------------------------- Tab.wait_for_page_load
\* Time is counted in ticks of 100 ms, the step of the loop (tab.py:200-201).
\* Configured delays, in ticks: 1.0 s and the default 3.0 s (defaults.py:6).
Delays == {10, 30}

\* tab.py:195-201: time_left is a float that starts at float(delay) and loses
\* 0.1 per iteration. After 10*delay subtractions in IEEE doubles what is
\* left is not exactly 0: 1.0 leaves 1.39e-16 (positive, the loop runs once
\* more), 3.0 leaves -1.53e-15. The sign of that residue, per delay.
FloatResidue == [d \in Delays |-> IF d = 10 THEN 1 ELSE -1]

\* tab.py:197  time_left > 0, for the whole ticks left of delay d
Positive(d, left) == left > 0 \/ (left = 0 /\ FloatResidue[d] > 0)

\* A faulty quiet test that already holds at exactly one second; C7 must
\* notice it.
QuietAtLeast(idle) == idle >= QuietTicks

\* tab.py:199  time.time() - self._last_active_time > 1
Quiet(idle) == idle > QuietTicks

\* A faulty loop that forgets to count the tick down; C8 must notice it.
TimeLeftKept(left) == left

\* tab.py:201  time_left -= 0.1
TimeLeftAfter(left) == left - 1

\* Tab.__init__ (tab.py:18-20) at tick 0, before Page.navigate.
NewSettle(d) ==
    [pc |-> "idle", delay |-> d, now |-> 0, last_active |-> 0, page_loaded |-> FALSE,
     time_left |-> 0, started_at |-> -1, ended_at |-> -1, why |-> "", load_at |-> -1,
     slept |-> 0, late |-> 0]

InitSettle == settle = NewSettle(30)

\* Tab.navigate (tab.py:185-188): Page.navigate is issued.
settle_navigate ==
    /\ settle.pc = "idle"
    /\ settle' = [settle EXCEPT !.pc = "navigating"]
    /\ UNCHANGED <<muxVars, tabVars, shotVars, poolVars, stopVars, recVars>>

\* Time passes while create() and the Page.navigate request are awaited.
settle_pass ==
    /\ settle.pc \in {"idle", "navigating"}
    /\ settle.now < MaxLead
    /\ settle' = [settle EXCEPT !.now = @ + 1]
    /\ UNCHANGED <<muxVars, tabVars, shotVars, poolVars, stopVars, recVars>>

\* Tab.handle_event (tab.py:83-90), run by the tab's worker while the
\* navigating task is suspended: every event stamps _last_active_time;
\* Page.loadEventFired sets _page_loaded.
settle_event(m) ==
    /\ settle.pc \in {"idle", "navigating", "sleeping"}
    /\ settle' = [settle EXCEPT !.last_active = settle.now,
                                !.page_loaded = IF m = "Page.loadEventFired" THEN TRUE ELSE @,
                                !.load_at = IF m = "Page.loadEventFired" THEN settle.now ELSE @]
    /\ UNCHANGED <<muxVars, tabVars, shotVars, poolVars, stopVars, recVars>>

\* tab.py:188-195: Page.navigate returned; the loop's budget starts here.
settle_start ==
    /\ settle.pc = "navigating"
    /\ settle' = [settle EXCEPT !.pc = "check", !.time_left = settle.delay,
                                !.started_at = settle.now]
    /\ UNCHANGED <<muxVars, tabVars, shotVars, poolVars, stopVars, recVars>>

\* tab.py:197-200: the loop condition and the break test, then the sleep.
settle_check ==
    /\ settle.pc = "check"
    /\ settle' =
          IF ~Positive(settle.delay, settle.time_left)
          THEN [settle EXCEPT !.pc = "ended", !.why = "budget", !.ended_at = settle.now]
          ELSE IF settle.page_loaded /\ Quiet(settle.now - settle.last_active)
          THEN [settle EXCEPT !.pc = "ended", !.why = "quiet", !.ended_at = settle.now]
          ELSE [settle EXCEPT !.pc = "sleeping"]
    /\ UNCHANGED <<muxVars, tabVars, shotVars, poolVars, stopVars, recVars>>

\* tab.py:200-201: asyncio.sleep(0.1) is over, after 100 ms or later.
settle_wake ==
    /\ settle.pc = "sleeping"
    /\ \E over \in {0, 1} :
          /\ settle.late + over <= MaxLate
          /\ settle' = [settle EXCEPT !.pc = "check", !.now = @ + 1 + over,
                                      !.late = @ + over, !.slept = @ + 1,
                                      !.time_left = TimeLeftAfter(@)]
    /\ UNCHANGED <<muxVars, tabVars, shotVars, poolVars, stopVars, recVars>>

\* ------------------------------------------------------ Tab.screenshot
\* A faulty lock that anyone may take at any time; C11 must notice it.
LockFreeAlways(holder) == TRUE

\* tab.py:51  asyncio.Lock: `async with` goes on only when nobody holds it
LockFree(holder) == holder = None

\* The commands that act on the one viewport or run under the tab lock
\* (tab.py:36, 40, 53, 58).
LockedMethods == {"Target.createTarget", "Target.attachToTarget",
                  "Target.activateTarget", "Page.captureScreenshot"}

\* Tab.screenshot (tab.py:50-53) on a created tab: take the tab lock and
\* activate the target.
cap_lock(t) ==
    /\ tab[t].pc = "live"
    /\ req[t].pc = "idle"
    /\ LockFree(tab_lock)
    /\ tab_lock' = t
    /\ tab' = [tab EXCEPT ![t].pc = "activate", ![t].exc = ""]
    /\ req' = [req EXCEPT ![t] = EnterRequest("Target.activateTarget", TRUE,
                                             tab[t].session_id, FALSE)]
    /\ UNCHANGED <<lifeVars, mapVars, idVars, inVars, pending_requests, futures, sent,
                   queue, worker, closer, delivered, dropped, close_issued, handled>>
    /\ UNCHANGED <<settleVars, shotVars, poolVars, stopVars, recVars>>

\* tab.py:53-58: activateTarget returned (a result or an error dict, which
\* nothing looks at); ask for the screenshot.
cap_activated(t) ==
    /\ tab[t].pc = "activate"
    /\ req[t].pc = "returned"
    /\ tab' = [tab EXCEPT ![t].pc = "captureScreenshot"]
    /\ req' = [req EXCEPT ![t] = EnterRequest("Page.captureScreenshot", TRUE,
                                             tab[t].session_id, FALSE)]
    /\ UNCHANGED <<lifeVars, mapVars, idVars, inVars, pending_requests, futures, sent,
                   queue, worker, tab_lock, closer, delivered, dropped, close_issued,
                   handled>>
    /\ UNCHANGED <<settleVars, shotVars, poolVars, stopVars, recVars>>

\* tab.py:58-60: captureScreenshot returned; response["data"] is there in a
\* result and missing (KeyError) in an error dict. Either way the `async
\* with` block is left and the lock released; then get_title (tab.py:60,
\* 238-243) asks for the navigation history.
cap_captured(t) ==
    /\ tab[t].pc = "captureScreenshot"
    /\ req[t].pc = "returned"
    /\ tab_lock' = None
    /\ IF req[t].out = "result"
         THEN /\ tab' = [tab EXCEPT ![t].pc = "title"]
              /\ req' = [req EXCEPT ![t] = EnterRequest("Page.getNavigationHistory", TRUE,
                                                       tab[t].session_id, FALSE)]
         ELSE /\ tab' = [tab EXCEPT ![t].pc = "live", ![t].exc = "KeyError"]
              /\ req' = [req EXCEPT ![t] = IdleReq]
    /\ UNCHANGED <<lifeVars, mapVars, idVars, inVars, pending_requests, futures, sent,
                   queue, worker, closer, delivered, dropped, close_issued, handled>>
    /\ UNCHANGED <<settleVars, shotVars, poolVars, stopVars, recVars>>

\* tab.py:60-61: get_title is over (a missing title is ""), or its request
\* raised; screenshot() ends.
cap_titled(t) ==
    /\ tab[t].pc = "title"
    /\ req[t].pc \in {"returned", "raised"}
    /\ tab' = [tab EXCEPT ![t].pc = "live",
                          ![t].exc = IF req[t].pc = "raised" THEN req[t].out ELSE ""]
    /\ req' = [req EXCEPT ![t] = IdleReq]
    /\ UNCHANGED <<lifeVars, mapVars, idVars, inVars, pending_requests, futures, sent,
                   queue, worker, tab_lock, closer, delivered, dropped, close_issued,
                   handled>>
    /\ UNCHANGED <<settleVars, shotVars, poolVars, stopVars, recVars>>

\* A request made under the lock raised (its TimeoutError): `async with`
\* releases the lock and screenshot() raises.
cap_raised(t) ==
    /\ tab[t].pc \in {"activate", "captureScreenshot"}
    /\ req[t].pc = "raised"
    /\ tab_lock' = None
    /\ tab' = [tab EXCEPT ![t].pc = "live", ![t].exc = req[t].out]
    /\ req' = [req EXCEPT ![t] = IdleReq]
    /\ UNCHANGED <<lifeVars, mapVars, idVars, inVars, pending_requests, futures, sent,
                   queue, worker, closer, delivered, dropped, close_issued, handled>>
    /\ UNCHANGED <<settleVars, shotVars, poolVars, stopVars, recVars>>

\* ------------------------------------------------- Browser.screenshot
\* The screenshot(url) task of each URL; URL u is captured with Tab object u.
\* assigned: the local `tab` of screenshot() is set (browser.py:140 returned).
NewShot == [pc |-> "none", assigned |-> FALSE, timed_out |-> FALSE, exc |-> "",
            result |-> "unset"]

\* The URLs of the batch, in the order given.
Urls == <<"t1", "t2">>

NewPool(n) == [pc |-> "idle", threads |-> n, all_args |-> <<>>, tasks |-> {},
               yielded |-> <<>>]

InitShot ==
    /\ shot = [t \in Tabs |-> NewShot]
    /\ pool = NewPool(2)

\* Tab.navigate under asyncio.wait_for (browser.py:154, tab.py:185-188).
shot_navigate(t) ==
    /\ shot[t].pc = "running"
    /\ tab[t].pc = "live"
    /\ tab' = [tab EXCEPT ![t].pc = "navigate"]
    /\ req' = [req EXCEPT ![t] = EnterRequest("Page.navigate", TRUE, tab[t].session_id, FALSE)]
    /\ UNCHANGED <<lifeVars, mapVars, idVars, inVars, pending_requests, futures, sent,
                   queue, worker, tab_lock, closer, delivered, dropped, close_issued, handled>>
    /\ UNCHANGED <<settleVars, shotVars, poolVars, stopVars, recVars>>

\* tab.py:188-190: Page.navigate returned (a result or an error dict); the
\* settle loop runs.
shot_navigated(t) ==
    /\ tab[t].pc = "navigate"
    /\ req[t].pc = "returned"
    /\ tab' = [tab EXCEPT ![t].pc = "settle"]
    /\ req' = [req EXCEPT ![t] = IdleReq]
    /\ UNCHANGED <<lifeVars, mapVars, idVars, inVars, pending_requests, futures, sent,
                   queue, worker, tab_lock, closer, delivered, dropped, close_issued, handled>>
    /\ UNCHANGED <<settleVars, shotVars, poolVars, stopVars, recVars>>

\* The Page.navigate request itself raised (its own TimeoutError).
shot_navigate_raised(t) ==
    /\ tab[t].pc = "navigate"
    /\ req[t].pc = "raised"
    /\ tab' = [tab EXCEPT ![t].pc = "failed", ![t].exc = req[t].out]
    /\ req' = [req EXCEPT ![t] = IdleReq]
    /\ UNCHANGED <<lifeVars, mapVars, idVars, inVars, pending_requests, futures, sent,
                   queue, worker, tab_lock, closer, delivered, dropped, close_issued, handled>>
    /\ UNCHANGED <<settleVars, shotVars, poolVars, stopVars, recVars>>

\* browser.py:154: navigate + settle did not finish within self.timeout;
\* wait_for cancels tab.navigate and new_tab raises TimeoutError.
shot_timeout(t) ==
    /\ shot[t].pc = "running"
    /\ tab[t].pc \in {"navigate", "settle"}
    /\ req[t].pc \in {"idle", "alloc", "wait"}
    /\ tab' = [tab EXCEPT ![t].pc = "failed", ![t].exc = "TimeoutError"]
    /\ req' = [req EXCEPT ![t] = IdleReq]
    /\ shot' = [shot EXCEPT ![t].timed_out = TRUE]
    /\ UNCHANGED <<lifeVars, mapVars, idVars, inVars, pending_requests, futures, sent,
                   queue, worker, tab_lock, closer, delivered, dropped, close_issued, handled>>
    /\ UNCHANGED <<settleVars, pool, poolVars, stopVars, recVars>>

\* browser.py:140, 155: the settle loop ended in time; new_tab returns and
\* `tab` is assigned.
shot_new_tab_returned(t) ==
    /\ shot[t].pc = "running"
    /\ tab[t].pc = "settle"
    /\ tab' = [tab EXCEPT ![t].pc = "capture"]
    /\ shot' = [shot EXCEPT ![t].assigned = TRUE]
    /\ UNCHANGED <<muxVars, queue, worker, tab_lock, closer, delivered, dropped,
                   close_issued, handled>>
    /\ UNCHANGED <<settleVars, pool, poolVars, stopVars, recVars>>

\* What the call at browser.py:141 can do: return, raise TimeoutError (a
\* request of Tab.screenshot timed out), raise something else.
CaptureOutcomes == {"", "TimeoutError", "TypeError"}

\* browser.py:141-142
shot_capture(t) ==
    /\ shot[t].pc = "running"
    /\ tab[t].pc = "capture"
    /\ \E e \in CaptureOutcomes :
          tab' = [tab EXCEPT ![t].pc = "finally", ![t].exc = e]
    /\ UNCHANGED <<muxVars, queue, worker, tab_lock, closer, delivered, dropped,
                   close_issued, handled>>
    /\ UNCHANGED <<settleVars, shotVars, poolVars, stopVars, recVars>>

\* browser.py:143-147: what screenshot() ends with after exception e:
\* TimeoutError is caught and None returned; anything else propagates.
ShotEnd(sh, e) ==
    [sh EXCEPT !.pc = "done",
               !.exc = IF e = "TimeoutError" THEN "" ELSE e,
               !.result = IF e = "" THEN "webscreenshot"
                          ELSE IF e = "TimeoutError" THEN "None" ELSE "unset"]

\* browser.py:138-147: new_tab raised, so `tab` is still None and the
\* finally clause closes nothing.
shot_end_unassigned(t) ==
    /\ shot[t].pc = "running"
    /\ tab[t].pc = "failed"
    /\ shot' = [shot EXCEPT ![t] = ShotEnd(@, tab[t].exc)]
    /\ UNCHANGED <<muxVars, tabVars, settleVars, pool, poolVars, stopVars, recVars>>

\* browser.py:146-149: `tab` is set; the finally clause closes it.
shot_close(t) ==
    /\ shot[t].pc = "running"
    /\ shot[t].assigned
    /\ tab[t].pc = "finally"
    /\ close_begin(t, t)
    /\ tab' = [tab EXCEPT ![t].pc = "closing"]
    /\ UNCHANGED closer

\* browser.py:148-149: close() returned or raised (suppressed); screenshot()
\* ends.
shot_return(t) ==
    /\ shot[t].pc = "running"
    /\ tab[t].pc \in {"closed", "close_failed"}
    /\ shot' = [shot EXCEPT ![t] = ShotEnd(@, tab[t].exc)]
    /\ UNCHANGED <<muxVars, tabVars, settleVars, pool, poolVars, stopVars, recVars>>

\* ------------------------------------------------------------ task_pool
\* helpers.py:28-32  new_task(): pop the next argument, if any, and start
\* its task.
PoolAfterNewTask(pl) ==
    IF pl.all_args = <<>> THEN pl
    ELSE [pl EXCEPT !.all_args = Tail(@), !.tasks = @ \cup {Head(pl.all_args)}]

ShotAfterNewTask(pl, sh) ==
    IF pl.all_args = <<>> THEN sh
    ELSE [sh EXCEPT ![Head(pl.all_args)].pc = "running"]

\* helpers.py:34-35  `for _ in range(threads): new_task()`
RECURSIVE PoolAfterBatch(_, _)
PoolAfterBatch(pl, n) == IF n = 0 THEN pl ELSE PoolAfterBatch(PoolAfterNewTask(pl), n - 1)

RECURSIVE ShotAfterBatch(_, _, _)
ShotAfterBatch(pl, sh, n) ==
    IF n = 0 THEN sh
    ELSE ShotAfterBatch(PoolAfterNewTask(pl), ShotAfterNewTask(pl, sh), n - 1)

\* Browser.screenshot_urls (browser.py:133-135) starts task_pool
\* (helpers.py:21-35) on a started browser.
pool_start ==
    /\ pool.pc = "idle"
    /\ commands_loaded
    /\ LET pl == [pool EXCEPT !.pc = "run", !.all_args = Urls] IN
          /\ pool' = PoolAfterBatch(pl, pool.threads)
          /\ shot' = ShotAfterBatch(pl, shot, pool.threads)
    /\ UNCHANGED <<muxVars, tabVars, settleVars, poolVars, stopVars, recVars>>

\* helpers.py:39-45: a finished task is popped; task.result() returns its
\* value or raises its exception, which nothing in task_pool catches; after
\* the yield the next task is started.
pool_collect(t) ==
    /\ pool.pc = "run"
    /\ t \in pool.tasks
    /\ shot[t].pc = "done"
    /\ LET popped == [pool EXCEPT !.tasks = @ \ {t}] IN
          IF shot[t].exc # ""
          THEN /\ pool' = [popped EXCEPT !.pc = "aborted"]
               /\ UNCHANGED shot
          ELSE LET pl == [popped EXCEPT !.yielded = Append(@, <<t, shot[t].result>>)] IN
               /\ pool' = PoolAfterNewTask(pl)
               /\ shot' = ShotAfterNewTask(pl, shot)
    /\ UNCHANGED <<muxVars, tabVars, settleVars, poolVars, stopVars, recVars>>

\* helpers.py:38  `while tasks:` finds no task left.
pool_finish ==
    /\ pool.pc = "run"
    /\ pool.tasks = {}
    /\ pool' = [pool EXCEPT !.pc = "done"]
    /\ UNCHANGED <<muxVars, tabVars, settleVars, shot, poolVars, stopVars, recVars>>

\* ------------------------------------------------- task_pool, alone
\* task_pool(fn, all_args, threads) with any worker fn. An invocation is
\* named by its index in inv; a worker that returns returns that index, so a
\* result tells which invocation made it.
Args == {"a", "b"}
ArgLists == UNION {[1..n -> Args] : n \in 0..MaxArgs}
ThreadCounts == 1..MaxThreads

\* helpers.py:21-27 on entry. args0 keeps the list as given; equal: the
\* workers all take the same time (one round) and all return; round counts
\* the rounds; todo is the set or dict a `for` loop is going through.
NewTp(args, n, eq) ==
    [pc |-> "idle", threads |-> n, args0 |-> args, all_args |-> <<>>, tasks |-> {},
     todo |-> {}, yielded |-> <<>>, equal |-> eq, round |-> 0, cancelled |-> FALSE,
     exc |-> ""]

InitPool ==
    /\ tp = NewTp(<<>>, 1, FALSE)
    /\ inv = <<>>

\* helpers.py:29-33  new_task(): pop the first argument, if there is one,
\* create its task and keep it in tasks.
new_task(st) ==
    IF st.tp.all_args = <<>> THEN st
    ELSE [tp |-> [st.tp EXCEPT !.all_args = Tail(@), !.tasks = @ \cup {Len(st.inv) + 1}],
          inv |-> Append(st.inv, [arg |-> Head(st.tp.all_args), state |-> "running",
                                  result |-> 0])]

RECURSIVE new_tasks(_, _)
new_tasks(st, n) == IF n = 0 THEN st ELSE new_tasks(new_task(st), n - 1)

\* A faulty first batch of one task; C14 must notice it.
BatchOfOne(n) == 1

\* helpers.py:35  range(threads)
BatchSize(n) == n

\* Faulty refills after a yield: two tasks (C12 must notice), none (C13 must
\* notice).
RefillTwo(p) == 2
RefillNone(p) == 0

\* helpers.py:45  one new_task() after each yield
Refill(p) == 1

\* helpers.py:38  `while tasks:` / the generator is over
AfterLoopTest(p) == [p EXCEPT !.pc = IF p.tasks = {} THEN "done" ELSE "wait"]

\* helpers.py:26-36, 38: copy the list, start the first batch, go to wait.
tp_begin ==
    /\ tp.pc = "idle"
    /\ LET st == new_tasks([tp |-> [tp EXCEPT !.all_args = tp.args0], inv |-> inv],
                           BatchSize(tp.threads)) IN
          /\ tp' = AfterLoopTest(st.tp)
          /\ inv' = st.inv
    /\ UNCHANGED <<muxVars, tabVars, settleVars, shotVars, stopVars, recVars>>

\* A worker invocation returns (its own index), at any time.
work_return(i) ==
    /\ ~tp.equal
    /\ inv[i].state = "running"
    /\ inv' = [inv EXCEPT ![i].state = "returned", ![i].result = i]
    /\ UNCHANGED <<muxVars, tabVars, settleVars, shotVars, tp, stopVars, recVars>>

\* A worker invocation raises an exception.
work_raise(i) ==
    /\ ~tp.equal
    /\ inv[i].state = "running"
    /\ inv' = [inv EXCEPT ![i].state = "raised"]
    /\ UNCHANGED <<muxVars, tabVars, settleVars, shotVars, tp, stopVars, recVars>>

\* Workers of equal duration: those running while task_pool waits all return
\* together, which ends a round.
round_end ==
    /\ tp.equal
    /\ tp.pc = "wait"
    /\ \E i \in tp.tasks : inv[i].state = "running"
    /\ inv' = [i \in 1..Len(inv) |->
                  IF inv[i].state = "running"
                  THEN [inv[i] EXCEPT !.state = "returned", !.result = i] ELSE inv[i]]
    /\ tp' = [tp EXCEPT !.round = @ + 1]
    /\ UNCHANGED <<muxVars, tabVars, settleVars, shotVars, stopVars, recVars>>

\* helpers.py:40  asyncio.wait(FIRST_COMPLETED) returns the tasks that are
\* done.
tp_wake ==
    /\ tp.pc = "wait"
    /\ \E i \in tp.tasks : inv[i].state # "running"
    /\ tp' = [tp EXCEPT !.pc = "collect",
                        !.todo = {i \in tp.tasks : inv[i].state # "running"}]
    /\ UNCHANGED <<muxVars, tabVars, settleVars, shotVars, inv, stopVars, recVars>>

\* helpers.py:41-44: the next task of `done` (a set: any order) is popped;
\* task.result() returns the value, which is yielded with the argument, or
\* raises the worker's exception, which no except clause here catches.
tp_collect(i) ==
    /\ tp.pc = "collect"
    /\ i \in tp.todo
    /\ LET popped == [tp EXCEPT !.tasks = @ \ {i}, !.todo = @ \ {i}] IN
          tp' = IF inv[i].state = "raised"
                THEN [popped EXCEPT !.pc = "raised", !.exc = "WorkerError"]
                ELSE [popped EXCEPT !.pc = "yielded",
                                    !.yielded = Append(@, <<inv[i].arg, inv[i].result>>)]
    /\ UNCHANGED <<muxVars, tabVars, settleVars, shotVars, inv, stopVars, recVars>>

\* helpers.py:44-45, 41, 38: the consumer asks for the next pair; new_task(),
\* then the rest of `done`, then the loop test.
tp_resume ==
    /\ tp.pc = "yielded"
    /\ LET st == new_tasks([tp |-> tp, inv |-> inv], Refill(tp)) IN
          /\ tp' = IF st.tp.todo # {} THEN [st.tp EXCEPT !.pc = "collect"]
                    ELSE AfterLoopTest(st.tp)
          /\ inv' = st.inv
    /\ UNCHANGED <<muxVars, tabVars, settleVars, shotVars, stopVars, recVars>>

\* helpers.py:40, 46-47: the task running the generator is cancelled while it
\* waits; the except clause starts to go through tasks.
tp_cancel ==
    /\ ~tp.equal
    /\ tp.pc = "wait"
    /\ tp' = [tp EXCEPT !.pc = "cancelling", !.cancelled = TRUE, !.todo = tp.tasks]
    /\ UNCHANGED <<muxVars, tabVars, settleVars, shotVars, inv, stopVars, recVars>>

\* The first task of a dict in its (insertion) order.
FirstOf(S) == CHOOSE i \in S : \A j \in S : i <= j

\* helpers.py:47-50, for the next task of tasks: cancel() and
\* wait_for(task, 0.01) under suppress(CancelledError). A running task is
\* cancelled; if it ends within 10 ms the loop goes on, if not wait_for
\* raises TimeoutError, which suppress does not hold back. A task that had
\* returned gives its value; a task that had raised raises again.
tp_cancel_task ==
    /\ tp.pc = "cancelling"
    /\ tp.todo # {}
    /\ LET i == FirstOf(tp.todo) IN
          \/ /\ inv[i].state \in {"running", "returned"}
             /\ inv' = [inv EXCEPT ![i].state = IF @ = "running" THEN "cancelled" ELSE @]
             /\ tp' = [tp EXCEPT !.todo = @ \ {i}]
          \/ /\ inv[i].state = "running"
             /\ inv' = [inv EXCEPT ![i].state = "cancelled"]
             /\ tp' = [tp EXCEPT !.pc = "raised", !.exc = "TimeoutError"]
          \/ /\ inv[i].state = "raised"
             /\ inv' = inv
             /\ tp' = [tp EXCEPT !.pc = "raised", !.exc = "WorkerError"]
    /\ UNCHANGED <<muxVars, tabVars, settleVars, shotVars, stopVars, recVars>>

\* helpers.py:46-50: the except clause is over and has no `raise`; the
\* generator returns as if the list were done.
tp_cancel_end ==
    /\ tp.pc = "cancelling"
    /\ tp.todo = {}
    /\ tp' = [tp EXCEPT !.pc = "done"]
    /\ UNCHANGED <<muxVars, tabVars, settleVars, shotVars, inv, stopVars, recVars>>

\* helpers.py:44: the consumer is cancelled while the generator is suspended
\* at the yield: the consumer's await raises CancelledError, and the
\* generator is closed with GeneratorExit, which the except clause
\* (KeyboardInterrupt, CancelledError) does not catch.
tp_close ==
    /\ ~tp.equal
    /\ tp.pc = "yielded"
    /\ tp' = [tp EXCEPT !.pc = "closed", !.cancelled = TRUE, !.exc = "CancelledError"]
    /\ UNCHANGED <<muxVars, tabVars, settleVars, shotVars, inv, stopVars, recVars>>

\* ---------------------------------------------------------------- stop
\* Browser.stop (browser.py:371-433) as run by the finally clause of
\* _message_handler (browser.py:368-369).
\* browser.py:372-381: one close task per registered tab, then gather them.
stop_begin ==
    /\ pump = "stopping"
    /\ IF closed
         THEN /\ pump' = "done"
              /\ UNCHANGED closer
         ELSE /\ closer' = [t \in Tabs |-> IF t \in Range2(tabs) THEN "spawned" ELSE closer[t]]
              /\ pump' = IF Range2(tabs) = {} THEN "stop_ws" ELSE "gather"
    /\ UNCHANGED <<websocket, commands_loaded, closed, conn_closed, mapVars, idVars, inVars,
                   pending_requests, futures, req, sent, tab, queue, worker, tab_lock,
                   delivered, dropped, close_issued, handled>>
    /\ UNCHANGED <<settleVars, shotVars, poolVars, stopVars, recVars>>

\* The close task of tab t runs Tab.close.
closer_begin(t) ==
    /\ closer[t] = "spawned"
    /\ close_begin(CloserOf[t], t)
    /\ closer' = [closer EXCEPT ![t] = "closing"]
    /\ UNCHANGED tab

closer_end(t) ==
    /\ closer[t] = "closing"
    /\ close_end(CloserOf[t], t)
    /\ tab' = [tab EXCEPT ![t].closed = TRUE]
    /\ closer' = [closer EXCEPT ![t] = "done"]

closer_raised(t) ==
    /\ closer[t] = "closing"
    /\ close_raised(CloserOf[t], t)
    /\ closer' = [closer EXCEPT ![t] = "done"]
    /\ UNCHANGED tab

\* browser.py:380-381: gather(..., return_exceptions=True) is over.
stop_gathered ==
    /\ pump = "gather"
    /\ \A t \in Tabs : closer[t] \in {"none", "done"}
    /\ pump' = "stop_ws"
    /\ UNCHANGED <<websocket, commands_loaded, closed, conn_closed, mapVars, idVars, inVars,
                   pending_requests, futures, req, sent, tabVars>>
    /\ UNCHANGED <<settleVars, shotVars, poolVars, stopVars, recVars>>

\* browser.py:389-399: what a stop() run does from the websocket to the wait
\* for the child: close the websocket if there is one, terminate the child if
\* there is one.
ShutdownSteps(run) ==
    (IF websocket # None THEN {<<run, "websocket.close">>} ELSE {})
        \cup (IF chrome # "none" THEN {<<run, "terminate">>} ELSE {})

\* browser.py:389-399: close the websocket and forget it, terminate the child
\* and wait for it.
stop_websocket ==
    /\ pump = "stop_ws"
    /\ websocket' = None
    /\ conn_closed' = TRUE
    /\ pump' = "stop_chrome"
    /\ shutdown' = shutdown \cup ShutdownSteps("pump")
    /\ UNCHANGED <<commands_loaded, closed, mapVars, idVars, inVars,
                   pending_requests, futures, req, sent, tabVars>>
    /\ UNCHANGED <<settleVars, shotVars, poolVars, recVars, stopper, chrome, temp_dir>>

\* A faulty stop() that leaves the pending futures as they are; C26 must
\* notice it.
FailPendingNone(fs, pend) == fs

\* browser.py:423-426: every pending future that is not done fails.
FailPending(fs, pend) ==
    [f \in DOMAIN fs |->
        IF f \in Range2(pend) /\ fs[f].state = "pending"
        THEN [fs[f] EXCEPT !.state = "stopped_error"] ELSE fs[f]]

\* browser.py:395-433: the child has exited; fail what is pending, clear the
\* three maps, set _closed.
stop_finish ==
    /\ pump = "stop_chrome"
    /\ futures' = FailPending(futures, pending_requests)
    /\ pending_requests' = EmptyMap
    /\ tabs' = EmptyMap
    /\ event_queues' = EmptyMap
    /\ closed' = TRUE
    /\ pump' = "done"
    /\ chrome' = IF chrome = "none" THEN "none" ELSE "exited"
    /\ UNCHANGED <<websocket, commands_loaded, conn_closed, orphaned_session, idVars, inVars,
                   req, sent, tabVars>>
    /\ UNCHANGED <<settleVars, shotVars, poolVars, recVars, stopper, temp_dir, shutdown>>

\* ------------------------------------------------- stop(), by its owner
\* Browser.stop awaited by the task that owns the browser (browser.py:549).
MaxStops == 2

\* browser.py:372-381, 433: with _closed set, only `self._closed = True`;
\* otherwise one close task per registered tab.
owner_stop_begin ==
    /\ stopper.pc \in {"none", "returned"}
    /\ stopper.calls < MaxStops
    /\ IF closed
         THEN /\ stopper' = [pc |-> "returned", calls |-> stopper.calls + 1]
              /\ UNCHANGED closer
         ELSE /\ closer' = [t \in Tabs |-> IF t \in Range2(tabs) THEN "spawned" ELSE closer[t]]
              /\ stopper' = [pc |-> IF Range2(tabs) = {} THEN "cancel" ELSE "gather",
                             calls |-> stopper.calls + 1]
    /\ UNCHANGED <<lifeVars, mapVars, idVars, inVars, pending_requests, futures, req, sent,
                   tab, queue, worker, tab_lock, delivered, dropped, close_issued, handled>>
    /\ UNCHANGED <<settleVars, shotVars, poolVars, recVars, chrome, temp_dir, shutdown>>

\* browser.py:380-381: gather(..., return_exceptions=True) is over.
owner_stop_gathered ==
    /\ stopper.pc = "gather"
    /\ \A t \in Tabs : closer[t] \in {"none", "done"}
    /\ stopper' = [stopper EXCEPT !.pc = "cancel"]
    /\ UNCHANGED <<muxVars, tabVars, settleVars, shotVars, poolVars, recVars, chrome, temp_dir, shutdown>>

\* browser.py:384-387: cancel the message handler task, if it is there and
\* not done, and await it. Cancelled in recv(), the task enters its finally
\* clause (browser.py:368-369) and runs stop() itself; cancelled inside the
\* stop() it was already running, that stop() is left where it was and the
\* close tasks it was gathering are cancelled with it.
owner_stop_cancel ==
    LET gone == {t \in Tabs : pump = "gather" /\ closer[t] \in {"spawned", "closing"}} IN
    /\ stopper.pc = "cancel"
    /\ pump' = IF pump = "recv" THEN "stopping"
               ELSE IF pump = "none" THEN "none" ELSE "done"
    /\ stopper' = [stopper EXCEPT !.pc = IF pump = "recv" THEN "await" ELSE "websocket"]
    /\ closer' = [t \in Tabs |-> IF t \in gone THEN "done" ELSE closer[t]]
    /\ req' = [th \in Threads |->
                  IF \E t \in gone : th = CloserOf[t] THEN IdleReq ELSE req[th]]
    /\ UNCHANGED <<websocket, commands_loaded, closed, conn_closed, mapVars, idVars, inVars,
                   pending_requests, futures, sent, tab, queue, worker, tab_lock, delivered,
                   dropped, close_issued, handled>>
    /\ UNCHANGED <<settleVars, shotVars, poolVars, recVars, chrome, temp_dir, shutdown>>

\* browser.py:386-387: the message handler task has ended.
owner_stop_awaited ==
    /\ stopper.pc = "await"
    /\ pump = "done"
    /\ stopper' = [stopper EXCEPT !.pc = "websocket"]
    /\ UNCHANGED <<muxVars, tabVars, settleVars, shotVars, poolVars, recVars, chrome, temp_dir, shutdown>>

\* browser.py:389-399
owner_stop_websocket ==
    /\ stopper.pc = "websocket"
    /\ websocket' = None
    /\ conn_closed' = IF websocket # None THEN TRUE ELSE conn_closed
    /\ shutdown' = shutdown \cup ShutdownSteps("owner")
    /\ stopper' = [stopper EXCEPT !.pc = "chrome"]
    /\ UNCHANGED <<commands_loaded, closed, pump, mapVars, idVars, inVars,
                   pending_requests, futures, req, sent, tabVars>>
    /\ UNCHANGED <<settleVars, shotVars, poolVars, recVars, chrome, temp_dir>>

\* browser.py:400-433
owner_stop_finish ==
    /\ stopper.pc = "chrome"
    /\ futures' = FailPending(futures, pending_requests)
    /\ pending_requests' = EmptyMap
    /\ tabs' = EmptyMap
    /\ event_queues' = EmptyMap
    /\ closed' = TRUE
    /\ chrome' = IF chrome = "none" THEN "none" ELSE "exited"
    /\ stopper' = [stopper EXCEPT !.pc = "returned"]
    /\ UNCHANGED <<websocket, commands_loaded, conn_closed, pump, orphaned_session, idVars,
                   inVars, req, sent, tabVars>>
    /\ UNCHANGED <<settleVars, shotVars, poolVars, recVars, temp_dir, shutdown>>

\* browser.py:463-464, 541-542: cleanup(), run by __del__ or at exit once the
\* owner has let go of the browser, removes the temporary directory.
cleanup ==
    /\ stopper.pc = "returned"
    /\ temp_dir
    /\ temp_dir' = FALSE
    /\ UNCHANGED <<muxVars, tabVars, settleVars, shotVars, poolVars, recVars, stopper, chrome, shutdown>>

\* ------------------------------------------------------ specifications
\* browser.py:71-79: no child yet, the temporary directory made; nobody has
\* called stop().
InitStop ==
    /\ stopper = [pc |-> "none", calls |-> 0]
    /\ chrome = "none"
    /\ temp_dir = TRUE
    /\ shutdown = {}

\* str.lower() on the resource type strings
LowerKept(t) == t

Lower(t) ==
    CASE t = "Document" -> "document"
      [] t = "Script" -> "script"
      [] t = "Image" -> "image"
      [] t = "Media" -> "media"
      [] t = "Font" -> "font"
      [] t = "Stylesheet" -> "stylesheet"
      [] OTHER -> t

\* defaults.py:9
ignored_types == {"Image", "Media", "Font", "Stylesheet"}

\* browser.py:95-98: the configured types, lower-cased
ignore_types(configured) == {Lower(t) : t \in configured}

\* browser.py:58-68, 89-98: the options of a Browser made with the given
\* settings; OptionDefaults are the constructor's.
NewOptions(requests, responses, javascript, base64, dom, ocr, configured) ==
    [requests |-> requests, responses |-> responses, javascript |-> javascript,
     base64 |-> base64, dom |-> dom, ocr |-> ocr,
     ignore_types |-> ignore_types(configured)]

OptionDefaults == NewOptions(FALSE, FALSE, FALSE, FALSE, FALSE, FALSE, ignored_types)

\* browser.py:72, 116: no child process and no websocket_uri yet.
\* return_code is what chrome_process.poll() returns: {} for None, {code} else.
NoStartup == [pc |-> "none", return_code |-> {}, serving |-> FALSE, uri |-> FALSE, polls |-> 0]

\* No sanitize_filename call is under way.
NoNaming == [filename |-> <<>>, pc |-> "none", out |-> <<>>]

\* webscreenshot.py:20-22: a fresh record has no url and an empty
\* navigation_history.
NewWebScreenshot == [url |-> None, navigation_history |-> <<>>]

InitRecord ==
    /\ webscreenshot = NewWebScreenshot
    /\ options = OptionDefaults
    /\ recorded = <<>>
    /\ hops = <<>>
    /\ created = {}
    /\ projection = {}
    /\ finisher = [t \in Tabs |-> "none"]
    /\ naming = NoNaming
    /\ raises = [t \in Tabs |-> {}]
    /\ startup = NoStartup

Init == InitMux /\ InitTabs /\ InitSettle /\ InitShot /\ InitPool /\ InitStop /\ InitRecord

engine ==
    \/ engine_respond
    \/ engine_repeat
    \/ nevents < MaxEvents /\ engine_event(EventMethods, {None, "s1"})
    \/ nevents < MaxEvents /\ engine_unknown
    \/ engine_close

message_handler ==
    \/ message_handler_recv
    \/ message_handler_closed
    \/ stop_begin
    \/ stop_websocket
    \/ stop_finish

\* The multiplexer under concurrent request() callers.
Next ==
    \/ start
    \/ \E c \in Callers :
          \/ commands_loaded /\ caller_request(c)
          \/ current_message_id < MaxId /\ next_message_id(c)
          \/ request_step(c)
    \/ engine
    \/ message_handler

Spec == Init /\ [][Next]_vars

\* --------------------------------------------------- claims under Spec
\* C1: a response frame with id i completes only the awaiter that request()
\* registered under id i, and completes it at most once, whatever events and
\* other responses are interleaved.  futures[f].by lists the ids of the
\* response frames that completed future f.
C1_ResponseCompletesItsAwaiterOnce ==
    \A f \in 1..Len(futures) :
        /\ Len(futures[f].by) <= 1
        /\ \A k \in 1..Len(futures[f].by) : futures[f].by[k] = futures[f].id
        /\ futures[f].state \in {"result", "protocol_error"} => Len(futures[f].by) = 1

\* A later request was answered (out of order) while an earlier one is still
\* waiting, a second answer to it has been read, and an event frame has been
\* read in between.
C1_Witness ==
    \E f, g \in 1..Len(futures) :
        /\ f < g
        /\ futures[f].state = "pending" /\ futures[f].id \in DOMAIN pending_requests
        /\ futures[g].by = <<futures[g].id>>
        /\ nrepeats > 0 /\ nevents > 0 /\ channel = <<>>

\* C2: every id allocated is strictly greater than every id allocated before
\* it, under any interleaving of callers and retry attempts; so no two frames
\* sent carry the same id and none is reused, also after stop().
C2_IdsStrictlyIncrease ==
    /\ \A i, j \in 1..Len(allocated) : i < j => allocated[i].id < allocated[j].id
    /\ \A i, j \in 1..Len(sent) : i # j => sent[i].id # sent[j].id

\* Both callers have sent frames, a retry attempt has been made, and an id has
\* been allocated after stop() finished.
C2_Witness ==
    /\ Len(sent) >= 2
    /\ \E c \in Retrying : req[c].left < RetriesWithRetry /\ req[c].id >= 0
    /\ \E i \in 1..Len(allocated) : i > 1 /\ allocated[i].stopped

\* C3: every entry of the pending map belongs to a command whose frame has
\* been sent and whose request() call has not completed (it is still waiting
\* for the answer).
C3_PendingIsSentAndWaiting ==
    \A i \in DOMAIN pending_requests :
        /\ \E k \in 1..Len(sent) : sent[k].id = i
        /\ \E th \in Threads : req[th].id = i /\ req[th].pc = "wait"

\* request() has raised TimeoutError and its entry is still in the map.
C3_StaleAfterTimeout ==
    \E th \in Threads :
        /\ req[th].pc = "raised" /\ req[th].out = "TimeoutError"
        /\ req[th].id \in DOMAIN pending_requests

\* ----------------------------------------------- request(), summarised
\* SpecTab follows the tabs, not the ids: a request() call is two steps, the
\* frame going out (or the call raising at once) and the call ending in one of
\* the ways request() ends. Spec checks the multiplexer behind these.
\* browser.py:221-228, 242-262
call_sent(th) ==
    /\ req[th].pc = "alloc"
    /\ req' = [req EXCEPT ![th].pc = IF websocket = None \/ conn_closed THEN "raised" ELSE "wait",
                          ![th].out = IF ~commands_loaded THEN "AttributeError"
                                      ELSE IF websocket = None THEN "WebCapError"
                                      ELSE IF conn_closed THEN "ConnectionClosed"
                                      ELSE ""]
    /\ UNCHANGED <<lifeVars, mapVars, idVars, inVars, pending_requests, futures, sent, tabVars>>
    /\ UNCHANGED <<settleVars, shotVars, poolVars, stopVars, recVars>>

\* browser.py:229-240: a result, the error dict after a protocol error, or
\* TimeoutError; after stop() has failed the future, WebCapError.
call_done(th) ==
    /\ req[th].pc = "wait"
    /\ \/ /\ pump = "recv"
          /\ \E v \in ResultValues(req[th].method) :
                req' = [req EXCEPT ![th].pc = "returned", ![th].out = "result", ![th].val = v]
       \/ /\ pump = "recv"
          /\ req' = [req EXCEPT ![th].pc = "returned", ![th].out = "errdict"]
       \/ /\ pump # "done"
          /\ req' = [req EXCEPT ![th].pc = "raised", ![th].out = "TimeoutError"]
       \/ /\ pump = "done"
          /\ req' = [req EXCEPT ![th].pc = "raised", ![th].out = "WebCapError"]
    /\ UNCHANGED <<lifeVars, mapVars, idVars, inVars, pending_requests, futures, sent, tabVars>>
    /\ UNCHANGED <<settleVars, shotVars, poolVars, stopVars, recVars>>

\* Tabs created, fed events and closed.

tab_step(t) ==
    \/ commands_loaded /\ tab_create(t)
    \/ worker_start(t)
    \/ tab_create_target(t)
    \/ tab_created(t)
    \/ tab_attached(t)
    \/ tab_page_enabled(t)
    \/ tab_net_enabled(t)
    \/ tab_create_raised(t)
    \/ tab_close(t)
    \/ tab_closed(t)
    \/ tab_close_raised(t)
    \/ worker_get(t)
    \/ worker_followup_done(t)

\* The connection stays up in SpecTab, so the pump keeps reading.
NextTab ==
    \/ start
    \/ \E t \in Tabs : tab_step(t)
    \/ \E th \in Tabs \cup Workers : call_sent(th) \/ call_done(th)
    \/ nevents < MaxTabEvents /\ engine_event(TabEventMethods, SessionIds \cup {None})
    \/ message_handler_recv

SpecTab == Init /\ [][NextTab]_vars

\* The settle loop of one tab for each configured delay.
NextSettle ==
    \/ settle_navigate
    \/ settle_pass
    \/ \E m \in TabEventMethods : settle_event(m)
    \/ settle_start
    \/ settle_check
    \/ settle_wake

InitAnyDelay ==
    /\ InitMux /\ InitTabs /\ InitShot /\ InitPool /\ InitStop /\ InitRecord
    /\ \E d \in Delays : settle = NewSettle(d)

SpecSettle == InitAnyDelay /\ [][NextSettle]_vars

\* A batch of URLs captured through task_pool with 1 or 2 threads.
shot_step(t) ==
    \/ shot[t].pc = "running" /\ tab_create(t)
    \/ worker_start(t)
    \/ tab_create_target(t)
    \/ tab_created(t)
    \/ tab_attached(t)
    \/ tab_page_enabled(t)
    \/ tab_net_enabled(t)
    \/ tab_create_raised(t)
    \/ shot_navigate(t)
    \/ shot_navigated(t)
    \/ shot_navigate_raised(t)
    \/ shot_timeout(t)
    \/ shot_new_tab_returned(t)
    \/ shot_capture(t)
    \/ shot_end_unassigned(t)
    \/ shot_close(t)
    \/ tab_closed(t)
    \/ tab_close_raised(t)
    \/ shot_return(t)

NextShot ==
    \/ start
    \/ pool_start
    \/ \E t \in Tabs : pool_collect(t)
    \/ pool_finish
    \/ \E t \in Tabs : shot_step(t)
    \/ \E th \in Tabs : call_sent(th) \/ call_done(th)

\* task_pool's `threads`
PoolThreads == {1, 2}

InitAnyThreads ==
    /\ InitMux /\ InitTabs /\ InitSettle /\ InitPool /\ InitStop /\ InitRecord
    /\ shot = [t \in Tabs |-> NewShot]
    /\ \E n \in PoolThreads : pool = NewPool(n)

SpecShot == InitAnyThreads /\ [][NextShot]_vars

\* ------------------------------------------------ claims under SpecTab
\* The event frame the pump reads in this step, if it reads one.
ReadsEvent == pump = "recv" /\ channel # <<>> /\ channel' = Tail(channel)
                 /\ Head(channel).kind = "event"

\* C4: an event frame carrying sessionId s is enqueued only on the queue of
\* the tab registered under s at that moment, and never reaches a tab
\* registered under a different session id.
C4_EventsReachOnlyTheirSession ==
    /\ [](\A t \in Tabs : \A k \in 1..Len(delivered[t]) :
             delivered[t][k].sessionId = tab[t].session_id)
    /\ [][\A t \in Tabs :
            queue'[t] # queue[t] /\ Len(queue'[t]) > Len(queue[t]) =>
                /\ ReadsEvent
                /\ Head(channel).sessionId \in DOMAIN event_queues
                /\ event_queues[Head(channel).sessionId] = t
                /\ queue'[t] = Append(queue[t], Head(channel))
                /\ \A u \in Tabs \ {t} : queue'[u] = queue[u]]_vars

\* Two tabs are registered under different session ids and each has been
\* handed an event of its own session.
C4_Witness ==
    /\ \A t \in Tabs : delivered[t] # <<>> /\ tab[t].session_id \in DOMAIN event_queues
    /\ tab["t1"].session_id # tab["t2"].session_id

\* C5: an event frame whose sessionId has no registered tab is dropped without
\* raising: no tab queue and no pending request changes, and the pump goes on
\* reading.
C5_UnroutedEventIsDropped ==
    [][ReadsEvent /\ ~Routed(Head(channel)) =>
          /\ queue' = queue /\ delivered' = delivered
          /\ pending_requests' = pending_requests /\ futures' = futures
          /\ event_queues' = event_queues /\ tabs' = tabs
          /\ pump' = "recv"]_vars

\* An event for the session of a tab that close() has deregistered was
\* dropped, and the pump has since handed a later event to the other tab.
C5_Witness ==
    \E t, u \in Tabs, k \in 1..Len(dropped) :
        /\ tab[t].pc \in {"closing", "closed", "close_failed"}
        /\ dropped[k].sessionId = tab[t].session_id
        /\ u # t /\ delivered[u] # <<>> /\ delivered[u][1].val > dropped[k].val
        /\ pump = "recv"

\* The event a tab's worker is handling (it awaits a follow-up call), if any.
InHand(t) == IF worker[t].pc = "followup" THEN <<worker[t].event>> ELSE <<>>

\* C6: per session, the worker handles the event frames in the order the pump
\* read them: none before an earlier one, none twice, and never two at a
\* time. What was put on the tab's queue is what was handled, then the one
\* event in hand, then what still waits, in that order; and the frames
\* carry increasing serial numbers of the tab's own session.
C6_EventsHandledInOrder ==
    \A t \in Tabs :
        /\ delivered[t] = handled[t] \o InHand(t) \o queue[t]
        /\ \A i, j \in 1..Len(handled[t]) : i < j => handled[t][i].val < handled[t][j].val
        /\ \A i \in 1..Len(handled[t]) : handled[t][i].sessionId = tab[t].session_id

\* A tab has handled two events, the first of them with a follow-up call.
C6_Witness ==
    \E t \in Tabs :
        /\ Len(handled[t]) = 2
        /\ handled[t][1].method = "Network.responseReceived"

\* --------------------------------------------- claims under SpecSettle
\* Ticks after which the loop's budget is used up: 10 per second of delay,
\* and one more where the float residue stays positive.
BudgetTicks(d) == d + (IF FloatResidue[d] > 0 THEN 1 ELSE 0)

\* C7 as stated: the loop ends at the first tick at which (a) the load event
\* has been handled and at least 1 s has passed since the last activity, or
\* (b) the delay has been slept through; it ends at no other tick.
C7_EndsWhenQuietAtLeast1sOrBudget ==
    [][settle.pc = "check" =>
          (settle'.pc = "ended" <=>
              \/ settle.page_loaded /\ settle.now - settle.last_active >= QuietTicks
              \/ settle.slept >= settle.delay)]_vars

\* C7, amended: the loop ends at the first tick at which (a) the load event
\* has been handled and more than 1 s has passed since the last activity, or
\* (b) the loop has slept its budget of ticks (10 per second of delay, one
\* more where float rounding leaves a positive rest); it ends at no other
\* tick.
C7_EndsWhenQuietOver1sOrBudget ==
    [][settle.pc = "check" =>
          (settle'.pc = "ended" <=>
              \/ settle.page_loaded /\ settle.now - settle.last_active > QuietTicks
              \/ settle.slept >= BudgetTicks(settle.delay))]_vars

\* The loop went on at a tick exactly 1 s after the last activity of a loaded
\* page, and ended (quiet) one tick later.
C7_Witness ==
    /\ settle.pc = "ended" /\ settle.why = "quiet"
    /\ settle.ended_at - settle.last_active = QuietTicks + 1
    /\ settle.last_active > settle.started_at
    /\ settle.late = 0

\* C8 as stated: with the load event handled at t and the last activity at
\* t + D, the loop completes no earlier than t + D + 1 s and no later than
\* t + delay.
C8_EndsBetweenQuietAndDelay ==
    settle.pc = "ended" /\ settle.load_at >= 0 =>
        /\ settle.ended_at >= settle.last_active + QuietTicks
        /\ settle.ended_at <= settle.load_at + settle.delay

\* C8, amended: the loop completes either quiet, later than 1 s after the
\* last activity of a loaded page, or with its budget used up, whichever
\* comes first; the budget counts from the return of Page.navigate, so the
\* loop is over after at most BudgetTicks sleeps, however late the load event.
C8_EndsQuietOrAtBudget ==
    /\ settle.pc \in {"check", "sleeping", "ended"} =>
          /\ settle.slept <= BudgetTicks(settle.delay)
          /\ settle.now = settle.started_at + settle.slept + settle.late
    /\ settle.pc = "ended" =>
          /\ settle.ended_at = settle.now
          /\ \/ /\ settle.why = "quiet"
                /\ settle.load_at >= 0
                /\ settle.ended_at > settle.last_active + QuietTicks
                /\ settle.slept < BudgetTicks(settle.delay)
             \/ /\ settle.why = "budget"
                /\ settle.slept = BudgetTicks(settle.delay)

\* The budget ran out less than 1 s after the last activity that followed
\* the load event.
C8_Witness ==
    /\ settle.pc = "ended" /\ settle.why = "budget"
    /\ settle.load_at > settle.started_at
    /\ settle.last_active > settle.load_at
    /\ settle.ended_at < settle.last_active + QuietTicks

\* ----------------------------------------------- claims under SpecShot
\* C9: when navigate + settle of a URL times out, its tab is closed before
\* screenshot() returns: target id and session id are out of the browser's
\* maps and Target.closeTarget has been issued for it.
C9_TimedOutTabIsClosed ==
    \A t \in Tabs :
        shot[t].pc = "done" /\ shot[t].timed_out =>
            /\ tab[t].tab_id \notin DOMAIN tabs
            /\ tab[t].session_id \notin DOMAIN event_queues
            /\ t \in close_issued

\* screenshot() has returned None after the timeout and the tab is still
\* registered under both ids, with no Target.closeTarget issued.
C9_TimedOutTabLeftOpen ==
    \E t \in Tabs :
        /\ shot[t].pc = "done" /\ shot[t].timed_out /\ shot[t].result = "None"
        /\ tab[t].tab_id \in DOMAIN tabs /\ tabs[tab[t].tab_id] = t
        /\ tab[t].session_id \in DOMAIN event_queues
        /\ t \notin close_issued

\* The pairs task_pool has yielded for URL u.
PairsOf(u) == {k \in 1..Len(pool.yielded) : pool.yielded[k][1] = u}

\* C10: when a URL times out, screenshot() returns None for it instead of
\* raising, so by the end of the batch screenshot_urls() has yielded
\* (url, None) for it and a pair for every other URL.
C10_TimeoutYieldsNoneAndBatchGoesOn ==
    \A t \in Tabs :
        shot[t].timed_out =>
            /\ shot[t].pc = "done" => shot[t].exc = "" /\ shot[t].result = "None"
            /\ pool.pc \in {"done", "aborted"} =>
                  /\ \E k \in PairsOf(t) : pool.yielded[k] = <<t, "None">>
                  /\ \A u \in Tabs : PairsOf(u) # {}

\* One URL timed out and returned None; the batch ended on the exception of
\* the other URL without a pair for it.
C10_BatchAbortedAfterTimeout ==
    \E t, u \in Tabs :
        /\ shot[t].timed_out /\ shot[t].pc = "done" /\ shot[t].result = "None"
        /\ u # t /\ shot[u].exc = "KeyError"
        /\ pool.pc = "aborted" /\ PairsOf(u) = {}

\* ------------------------------------------------------- SpecCapture
\* Tabs created and captured concurrently, each tab any number of times.
capture_step(t) ==
    \/ commands_loaded /\ tab_create(t)
    \/ worker_start(t)
    \/ tab_create_target(t)
    \/ tab_created(t)
    \/ tab_attached(t)
    \/ tab_page_enabled(t)
    \/ tab_net_enabled(t)
    \/ tab_create_raised(t)
    \/ cap_lock(t)
    \/ cap_activated(t)
    \/ cap_captured(t)
    \/ cap_titled(t)
    \/ cap_raised(t)
    \/ tab_close(t)
    \/ tab_closed(t)
    \/ tab_close_raised(t)

NextCapture ==
    \/ start
    \/ \E t \in Tabs : capture_step(t)
    \/ \E th \in Tabs : call_sent(th) \/ call_done(th)

SpecCapture == Init /\ [][NextCapture]_vars

\* Tab t has issued Target.activateTarget under the lock and not yet its
\* Page.captureScreenshot.
BetweenActivateAndCapture(t) ==
    \/ tab[t].pc = "activate" /\ req[t].pc \in {"wait", "returned"}
    \/ tab[t].pc = "captureScreenshot" /\ req[t].pc = "alloc"

\* Task u sends the frame of a command in this step.
Issues(u, methods) ==
    /\ req[u].pc = "alloc" /\ req'[u].pc = "wait"
    /\ req[u].method \in methods

\* C11: between a tab's Target.activateTarget and its own
\* Page.captureScreenshot no other tab issues Target.activateTarget,
\* Page.captureScreenshot, Target.createTarget or Target.attachToTarget.
C11_ActivateCaptureNotInterleaved ==
    [][\A t, u \in Tabs :
          t # u /\ BetweenActivateAndCapture(t) => ~Issues(u, LockedMethods)]_vars

\* One tab has had its activate answered and is about to send its capture
\* while the other tab, created and live, could only wait for the lock.
C11_Witness ==
    \E t, u \in Tabs :
        /\ t # u /\ BetweenActivateAndCapture(t)
        /\ tab[t].pc = "captureScreenshot" /\ tab_lock = t
        /\ tab[u].pc = "live" /\ req[u].pc = "idle"

\* ---------------------------------------------------------- SpecPool
\* task_pool over every short argument list, thread count and worker
\* behaviour.
InitAnyPool ==
    /\ InitMux /\ InitTabs /\ InitSettle /\ InitShot /\ InitStop /\ InitRecord
    /\ inv = <<>>
    /\ \E args \in ArgLists, n \in ThreadCounts, eq \in BOOLEAN : tp = NewTp(args, n, eq)

NextPool ==
    \/ tp_begin
    \/ \E i \in 1..Len(inv) : work_return(i) \/ work_raise(i)
    \/ round_end
    \/ tp_wake
    \/ \E i \in 1..Len(inv) : tp_collect(i)
    \/ tp_resume
    \/ tp_cancel
    \/ tp_cancel_task
    \/ tp_cancel_end
    \/ tp_close

SpecPool == InitAnyPool /\ [][NextPool]_vars

\* The event loop runs whatever is ready: a step that stays possible is taken.
SpecPoolFair == SpecPool /\ WF_vars(NextPool)

InFlight == tp.tasks
Running == {i \in 1..Len(inv) : inv[i].state = "running"}
PoolEnded == tp.pc \in {"done", "raised", "closed"}

\* C12: at every moment of a task_pool run, the number of worker invocations
\* in flight (kept in tasks, and a fortiori still running) is at most threads.
C12_InFlightAtMostThreads ==
    /\ Cardinality(InFlight) <= tp.threads
    /\ Cardinality(Running) <= tp.threads

\* A full pool after a refill: a pair was yielded and threads (>= 2)
\* invocations are in flight again.
C12_Witness ==
    /\ tp.pc = "wait"
    /\ tp.threads >= 2
    /\ Len(tp.yielded) >= 1
    /\ Cardinality(InFlight) = tp.threads
    /\ Cardinality(Running) = tp.threads

AllReturn == ~tp.cancelled /\ \A i \in 1..Len(inv) : inv[i].state \in {"running", "returned"}
YieldedFor(k) == {j \in 1..Len(tp.yielded) : tp.yielded[j] = <<tp.args0[k], k>>}
OncePerElement ==
    /\ Len(inv) = Len(tp.args0)
    /\ \A k \in 1..Len(inv) : inv[k].arg = tp.args0[k] /\ inv[k].state = "returned"
    /\ Len(tp.yielded) = Len(tp.args0)
    /\ \A k \in 1..Len(tp.args0) : Cardinality(YieldedFor(k)) = 1
    /\ tp.all_args = <<>>
    /\ tp.tasks = {}

\* C13: for a finite argument list and workers that all return, task_pool
\* invokes the worker exactly once per list element, duplicates included,
\* yields exactly one (argument, result) pair per element, with the result of
\* that element's own invocation, and then terminates with the queue and the
\* in-flight set empty. (threads >= 1.)
C13_OncePerElementThenTerminates ==
    /\ [](tp.pc = "done" /\ AllReturn => OncePerElement)
    /\ (tp.equal ~> (tp.pc = "done" /\ OncePerElement))

\* A finished run over a list with a duplicate, longer than threads, whose
\* pairs came out of order.
C13_Witness ==
    /\ tp.pc = "done" /\ AllReturn /\ OncePerElement
    /\ tp.args0 = <<"a", "a", "b">>
    /\ tp.threads = 2
    /\ tp.yielded[1] = <<"a", 2>>

Ceil(n, k) == (n + k - 1) \div k

\* C14: task_pool is work-conserving: each time it waits while unstarted
\* arguments remain, exactly threads invocations are in flight, so n workers
\* of equal duration complete in ceil(n / threads) rounds.
C14_WorkConserving ==
    /\ tp.pc = "wait" /\ tp.all_args # <<>> => Cardinality(InFlight) = tp.threads
    /\ tp.equal /\ tp.pc = "done" => tp.round = Ceil(Len(tp.args0), tp.threads)

\* Three workers of equal duration, two at a time, done after two rounds.
C14_Witness ==
    /\ tp.equal /\ tp.pc = "done"
    /\ Len(tp.args0) = 3 /\ tp.threads = 2
    /\ tp.round = 2
    /\ Len(tp.yielded) = 3

\* C15: when a worker invocation raises an exception, task_pool surfaces it
\* as the result value of that argument's pair and does not abort: every
\* remaining argument is still run and its pair is still yielded.
C15_WorkerErrorIsAResultAndPoolGoesOn ==
    PoolEnded /\ ~tp.cancelled =>
        /\ tp.exc = ""
        /\ Len(inv) = Len(tp.args0)
        /\ Len(tp.yielded) = Len(tp.args0)

\* The generator has raised the worker's exception with arguments unstarted.
C15_Witness ==
    /\ tp.pc = "raised" /\ tp.exc = "WorkerError" /\ ~tp.cancelled
    /\ tp.all_args # <<>>
    /\ Len(tp.yielded) < Len(tp.args0)

\* C16: when task_pool is cancelled while invocations are in flight, it
\* cancels every in-flight invocation and then propagates the cancellation
\* to its caller.
C16_CancelStopsAllAndPropagates ==
    PoolEnded /\ tp.cancelled =>
        /\ Running = {}
        /\ tp.exc = "CancelledError"

\* Cancelled while waiting, every task cancelled in time, and the generator
\* has returned without an exception.
C16_Witness ==
    /\ tp.pc = "done" /\ tp.cancelled /\ tp.exc = ""
    /\ \E i \in 1..Len(inv) : inv[i].state = "cancelled"
    /\ Running = {}

\* ---------------------------------------- unsupported commands (Spec)
\* request() calls for a command that is not in the capability table.
Unsupported(th) == req[th].pc # "idle" /\ ~req[th].supported
RetriesOf(c) == IF c \in Retrying THEN RetriesWithRetry ELSE RetriesDefault

\* C17: request() for a command whose domain or subcommand is not in the
\* capability table sends no frame on the channel (no step of the call
\* changes sent) and, once an attempt is over and once the call has returned,
\* leaves no entry for it in the pending map.
C17_UnsupportedTouchesNoWire ==
    /\ [][\A c \in Callers : Unsupported(c) /\ req'[c] # req[c] => sent' = sent]_vars
    /\ [](\A c \in Callers :
             Unsupported(c) /\ req[c].pc \in {"sleep", "alloc", "returned"}
                 => req[c].id \notin DOMAIN pending_requests)

\* An unsupported call has returned while another caller's frame is on the
\* wire and its entry is in the pending map.
C17_Witness ==
    \E c, d \in Callers :
        /\ Unsupported(c) /\ req[c].pc = "returned" /\ req[c].id >= 0
        /\ req[d].pc = "wait" /\ req[d].id \in DOMAIN pending_requests
        /\ Len(sent) = 1

\* C18: request() for a command whose domain is not in the capability table
\* fails immediately: it raises ProtocolError to its caller on the first
\* attempt, with no back-off wait and no further attempt, even when
\* retry=true.
C18_UnsupportedRaisesAtOnce ==
    \A c \in Callers :
        Unsupported(c) =>
            /\ req[c].pc \in {"alloc", "send", "raised"}
            /\ req[c].left = RetriesOf(c)
            /\ req[c].pc = "raised" => req[c].out = "DevToolsProtocolError"

\* A retrying call for an unsupported command is in its second attempt,
\* after a back-off wait.
C18_Witness ==
    \E c \in Retrying :
        /\ Unsupported(c) /\ req[c].pc = "send"
        /\ req[c].left = RetriesWithRetry - 1
        /\ req[c].delay = NextDelay(InitialRetryDelay)

\* --------------------------------------------------------- SpecRetry
\* request() with and without retry against an engine that may answer each
\* attempt with an error: all seven attempts fit.
MethodOf == [c \in Callers |->
                IF c \in Retrying THEN "Network.getResponseBody" ELSE "Target.getTargets"]

\* tab.py:167 and the calls without retry.
retry_call(c) ==
    /\ req[c].pc = "idle"
    /\ req' = [req EXCEPT ![c] = EnterRequest(MethodOf[c], TRUE, None, c \in Retrying)]
    /\ UNCHANGED <<lifeVars, mapVars, idVars, inVars, pending_requests, futures, sent, tabVars>>
    /\ UNCHANGED <<settleVars, shotVars, poolVars, stopVars, recVars>>

NextRetry ==
    \/ start
    \/ \E c \in Callers :
          \/ commands_loaded /\ retry_call(c)
          \/ next_message_id(c)
          \/ request_send(c)
          \/ request_result(c)
          \/ request_protocol_error(c)
          \/ request_timeout(c)
          \/ request_sleep(c)
    \/ engine_respond
    \/ message_handler_recv

SpecRetry == Init /\ [][NextRetry]_vars

FramesOf(c) == {i \in 1..Len(sent) : sent[i].method = MethodOf[c]}

\* C19: when the engine answers every attempt of a command with an error
\* frame, request(retry=true) sends the command at most 7 times, each attempt
\* under a fresh id, waiting 100 ms (one unit of InitialRetryDelay) before
\* the second attempt and doubling the wait before each later one;
\* request(retry=false) sends it exactly once.
C19_SevenAttemptsDoublingWait ==
    \A c \in Callers :
        /\ Cardinality(FramesOf(c)) <= (IF c \in Retrying THEN 7 ELSE 1)
        /\ \A i \in FramesOf(c), j \in 1..Len(sent) : i # j => sent[i].id # sent[j].id
        /\ req[c].pc = "sleep" =>
               req[c].delay = InitialRetryDelay * 2 ^ (Cardinality(FramesOf(c)) - 1)
        /\ req[c].pc = "returned" /\ req[c].out = "errdict" =>
               Cardinality(FramesOf(c)) = (IF c \in Retrying THEN 7 ELSE 1)

\* The retrying call waits after its seventh attempt was answered with an
\* error; the call without retry has returned after its only one.
C19_Witness ==
    \E c \in Retrying, d \in Callers \ Retrying :
        /\ req[c].pc = "sleep" /\ Cardinality(FramesOf(c)) = 7
        /\ req[c].delay = 64 * InitialRetryDelay
        /\ req[d].pc = "returned" /\ req[d].out = "errdict" /\ Cardinality(FramesOf(d)) = 1

\* C20: when the engine answers a command with an error frame and no
\* attempts remain, request() fails with ProtocolError: its caller observes a
\* raised error, not a result value.
C20_ExhaustedAttemptsRaise ==
    \A c \in Callers :
        req[c].pc \in {"returned", "raised"} /\ req[c].left = 0 =>
            req[c].pc = "raised" /\ req[c].out = "DevToolsProtocolError"

\* The retrying call has returned the error dict after seven error frames.
C20_Witness ==
    \E c \in Retrying :
        /\ req[c].pc = "returned" /\ req[c].out = "errdict" /\ req[c].left = 0
        /\ Cardinality(FramesOf(c)) = 7
        /\ \A i \in FramesOf(c) : sent[i].id \in answered

TimedOut(c) == req[c].pc = "raised" /\ req[c].out = "TimeoutError"

\* C21: when no response to an attempt arrives within the configured
\* timeout, request() propagates a timeout error to its caller and sends no
\* further attempt, even when retry=true: the step a call takes while its
\* awaiter is still pending ends it with TimeoutError, and a call that has
\* ended so takes no step and sends no frame any more.
C21_TimeoutPropagatesWithoutRetry ==
    /\ [][\A c \in Callers :
             /\ req[c].pc = "wait" /\ futures[req[c].fut].state = "pending"
             /\ req'[c] # req[c]
             => TimedOut(c)' /\ req'[c].left = req[c].left /\ sent' = sent]_vars
    /\ [][\A c \in Callers :
             TimedOut(c) => req'[c] = req[c] /\ FramesOf(c)' = FramesOf(c)]_vars

\* The retrying call has timed out on its second attempt, with five attempts
\* left unused.
C21_Witness ==
    \E c \in Retrying :
        /\ TimedOut(c)
        /\ Cardinality(FramesOf(c)) = 2
        /\ req[c].left = RetriesWithRetry - 1

\* ---------------------------------------------------------- SpecStop
\* A browser with no tab open: request() callers at any time, before start()
\* and after stop() included, the engine answering or dropping the
\* connection, the message handler, and the owner calling stop().
owner_stop ==
    \/ owner_stop_begin
    \/ owner_stop_cancel
    \/ owner_stop_awaited
    \/ owner_stop_websocket
    \/ owner_stop_finish

NextStop ==
    \/ stopper.pc = "none" /\ start
    \/ \E c \in Callers :
          \/ caller_request(c)
          \/ current_message_id < MaxId /\ next_message_id(c)
          \/ request_step(c)
    \/ engine_respond
    \/ engine_close
    \/ message_handler
    \/ owner_stop
    \/ cleanup

SpecStop == Init /\ [][NextStop]_vars

\* C22: request() called while no channel is open, before start() has run
\* or after stop(), fails with the not-started error (WebCapError, "You must
\* call start() ...") and sends nothing: the step of a call for a supported
\* command that finds no websocket raises it.
C22_NoChannelRaisesNotStarted ==
    [][\A c \in Callers :
          /\ req[c].pc = "send" /\ websocket = None /\ req[c].supported
          /\ req'[c] # req[c]
          => req'[c].pc = "raised" /\ req'[c].out = "WebCapError" /\ sent' = sent]_vars

\* A call made before start() has raised AttributeError.
C22_Witness ==
    \E c \in Callers :
        /\ ~commands_loaded /\ websocket = None /\ ~closed
        /\ req[c].pc = "raised" /\ req[c].out = "AttributeError"
        /\ sent = <<>>

\* C23: in every state reached after stop() has completed, the pending map,
\* the target map and the session map are empty and every awaiter that was
\* ever registered has been completed; this also holds after later request()
\* calls on the stopped browser.
C23_StoppedMeansEmptyAndCompleted ==
    closed =>
        /\ pending_requests = EmptyMap
        /\ tabs = EmptyMap
        /\ event_queues = EmptyMap
        /\ \A f \in 1..Len(futures) : Done(f)

\* A request() made on the stopped browser has raised, and its awaiter is
\* still registered and pending.
C23_Witness ==
    \E c \in Callers :
        /\ closed /\ stopper.pc = "returned"
        /\ req[c].pc = "raised" /\ req[c].out = "WebCapError"
        /\ req[c].id \in DOMAIN pending_requests
        /\ ~Done(pending_requests[req[c].id])

StopRuns == {"pump", "owner"}
StepsOf(run) == {st[2] : st \in {x \in shutdown : x[1] = run}}

\* C24: stop() is idempotent: a second stop(), called after the first has
\* finished or while the first is still running, performs no shutdown step a
\* second time: no step is taken by both runs.
C24_NoShutdownStepTwice ==
    StepsOf("pump") \cap StepsOf("owner") = {}

\* The owner's single stop() call has returned, and the child was terminated
\* both by the stop() the cancelled message handler ran and by the owner's.
C24_Witness ==
    /\ stopper = [pc |-> "returned", calls |-> 1]
    /\ <<"pump", "terminate">> \in shutdown
    /\ <<"owner", "terminate">> \in shutdown
    /\ closed

\* C25: after stop() returns, the child browser process is no longer running
\* and the per-instance temporary user-data directory has been removed.
C25_StoppedMeansNoChildNoTempDir ==
    stopper.pc = "returned" => chrome # "running" /\ ~temp_dir

\* stop() has returned, the child has exited, the directory is still there.
C25_Witness ==
    /\ stopper.pc = "returned" /\ closed
    /\ chrome = "exited"
    /\ temp_dir

\* The event loop runs what is ready: the message handler and a stop() that
\* has begun go on, and a request() whose future has failed resumes. Nothing
\* makes the engine answer, the timeout fire or the owner call stop().
SpecStopFair ==
    /\ SpecStop
    /\ WF_vars(message_handler)
    /\ WF_vars(owner_stop_cancel \/ owner_stop_awaited \/ owner_stop_websocket
                  \/ owner_stop_finish)
    /\ \A c \in Callers : WF_vars(request_stopped(c))

Waiting(c) == req[c].pc = "wait" /\ ~Done(req[c].fut)

Registered(t) ==
    \/ tab[t].tab_id \in DOMAIN tabs
    \/ tab[t].session_id \in DOMAIN event_queues
SessionEvents(q, t) ==
    {k \in 1..Len(q) : q[k].kind = "event" /\ q[k].sessionId = tab[t].session_id}

\* C27: Tab.close() removes the tab's target-id and session-id registrations
\* before it issues Target.closeTarget, so every event for that session that
\* the pump reads after close() has begun is dropped rather than queued: once
\* the close has begun the tab has no registration, while its
\* Target.closeTarget is on its way none either, and a step then puts
\* nothing on the tab's queue.
C27_CloseDeregistersBeforeClosing ==
    /\ [](\A t \in Tabs :
             /\ t \in close_issued => ~Registered(t)
             /\ req[t].method = "Target.closeTarget" /\ req[t].pc # "idle" => ~Registered(t))
    /\ [][\A t \in Tabs :
             t \in close_issued => delivered'[t] = delivered[t] /\ Len(queue'[t]) <= Len(queue[t])]_vars

\* A tab that got its first event is being closed, and the second event of
\* its session, read after the close began, was dropped.
C27_Witness ==
    \E t \in Tabs :
        /\ tab[t].pc = "closing" /\ t \in close_issued
        /\ Len(delivered[t]) = 1
        /\ \E k \in SessionEvents(dropped, t) : dropped[k].val > delivered[t][1].val

LiveTab(t) == tab[t].pc = "live"
CloseBegun(t) == tab[t].pc \in {"closing", "closed", "close_failed"}

\* C29: while a tab is live (from a successful create() until close()),
\* exactly one Tab, this one, is registered under its target-id and exactly
\* one event queue, its own, under its session-id, and no two live tabs share
\* a target-id or a session-id; after close() neither registration remains.
C29_LiveTabRegisteredOnce ==
    /\ \A t \in Tabs :
          LiveTab(t) =>
              /\ tab[t].tab_id \in DOMAIN tabs /\ tabs[tab[t].tab_id] = t
              /\ tab[t].session_id \in DOMAIN event_queues
              /\ event_queues[tab[t].session_id] = t
    /\ \A t, u \in Tabs :
          LiveTab(t) /\ LiveTab(u) /\ t # u =>
              tab[t].tab_id # tab[u].tab_id /\ tab[t].session_id # tab[u].session_id
    /\ \A t \in Tabs : CloseBegun(t) => ~Registered(t)

\* One tab live and registered, the other closed with no registration left.
C29_Witness ==
    \E t, u \in Tabs :
        /\ t # u
        /\ LiveTab(t) /\ tab[t].tab_id \in DOMAIN tabs
        /\ tab[u].pc = "closed" /\ tab[u].tab_id # None /\ ~Registered(u)

\* --------------------------------------------------------- SpecClose
\* Tabs created, fed an event, closed, and closed a second time.
NextClose ==
    \/ start
    \/ \E t \in Tabs :
          \/ tab_step(t)
          \/ tab_close_again(t)
          \/ tab_closed_again(t)
          \/ tab_close_again_raised(t)
    \/ \E th \in Tabs \cup Workers : call_sent(th) \/ call_done(th)
    \/ nevents < MaxEvents /\ engine_event(TabEventMethods, SessionIds)
    \/ message_handler_recv

SpecClose == Init /\ [][NextClose]_vars

SecondClose(t) == tab[t].pc \in {"closing_again", "closed_again", "close_again_failed"}

MaxNav == 3
Missing == "missing"
PageUrls == {"u1", "u2"}
Statuses == {200, 302}
\* "type" as the engine writes it, or absent
ResourceTypes == {"Document", "Image", Missing}
\* A response as the dict of its fields that reach the navigation entry; url
\* or status may be absent; location stands for a Location header, whose name
\* tab.py:141 lower-cases.
Responses ==
    [url : PageUrls, status : Statuses]
        \cup {[url |-> "u1"], [status |-> 200]}
        \cup {r \in [url : PageUrls, status : {302}, location : PageUrls] : r.location # r.url}
        \cup {[url |-> "u1", status |-> 200, location |-> "u2"]}
\* The first character of str(n) for n >= 0, as a digit
RECURSIVE LeadingDigit(_)
LeadingDigit(n) == IF n < 10 THEN n ELSE LeadingDigit(n \div 10)

\* tab.py:137-145: url and status from the response, "" and 0 when absent; the
\* Location header is kept when str(status) starts with "3".  mimeType takes no
\* part in what is checked here.
nav_item_no_location(response) ==
    [url |-> IF "url" \in DOMAIN response THEN response.url ELSE "",
     status |-> IF "status" \in DOMAIN response THEN response.status ELSE 0]

nav_item(response) ==
    LET url == IF "url" \in DOMAIN response THEN response.url ELSE ""
        status_code_ == IF "status" \in DOMAIN response THEN response.status ELSE 0
    IN IF LeadingDigit(status_code_) = 3 /\ "location" \in DOMAIN response
       THEN [url |-> url, status |-> status_code_, location |-> response.location]
       ELSE [url |-> url, status |-> status_code_]

\* WebScreenshot.get_request_obj (called at tab.py:109 and tab.py:147): resolves
\* or creates the network-log entry of the request id; it returns an entry for
\* every request id and type and leaves navigation_history alone.
get_request_obj(response_type) == response_type \in STRING

\* tab.py:186: navigate() stores the originating URL on the record.
navigate(u) ==
    /\ webscreenshot' = [webscreenshot EXCEPT !.url = u]
    /\ UNCHANGED <<recorded, hops, options, created, outVars, muxVars, tabVars, settleVars, shotVars, poolVars, stopVars>>

\* tab.py:122-175: what add_response adds to the record: the network-log entry
\* (147-149), the recorded response (167-172), the navigation entry (174-175).
response_items(response_type, body) ==
    IF response_type = "" \/ response_type \in options.ignore_types
    THEN {}
    ELSE {[kind |-> "entry", type |-> response_type]}
         \cup (IF options.responses /\ body = "returned"
               THEN {[kind |-> "response", type |-> response_type]} ELSE {})
         \cup (IF (options.responses => body = "returned") /\ response_type = "document"
               THEN {[kind |-> "navigation", type |-> response_type]} ELSE {})

\* tab.py:103-115: what add_request adds before it looks at the redirectResponse
request_items(request_type) ==
    IF request_type \in options.ignore_types
    THEN {}
    ELSE {[kind |-> "entry", type |-> request_type]}
         \cup (IF options.requests
               THEN {[kind |-> "request", type |-> request_type]} ELSE {})

\* tab.py:120-175.  response_type is the lower-cased type, "" when the frame
\* had none; body is the outcome of Network.getResponseBody when responses are
\* captured.  Every path but the last returns or raises before the append.
add_response(response, response_type, body) ==
    LET completes == /\ response_type # ""
                     /\ response_type \notin options.ignore_types
                     /\ get_request_obj(response_type)
                     /\ options.responses => body = "returned"
    IN /\ IF completes /\ response_type = "document"
          THEN /\ webscreenshot' = [webscreenshot EXCEPT
                      !.navigation_history = Append(@, nav_item(response))]
               /\ recorded' = Append(recorded, response)
          ELSE UNCHANGED <<webscreenshot, recorded>>
       /\ hops' = IF response_type = "document"
                  THEN Append(hops, [response |-> response, completed |-> completes])
                  ELSE hops

\* tab.py:95-96: Network.responseReceived; the type is read from the frame
\* (tab.py:125-128).
responseReceived(type, response, body) ==
    /\ Len(hops) < MaxNav
    /\ add_response(response, IF type = Missing THEN "" ELSE Lower(type), body)
    /\ created' = created \cup response_items(IF type = Missing THEN "" ELSE Lower(type), body)
    /\ UNCHANGED <<options, outVars, muxVars, tabVars, settleVars, shotVars, poolVars, stopVars>>

\* tab.py:92-93, 101-118: Network.requestWillBeSent; a redirectResponse in the
\* frame (redirected) is recorded under the request's type, "unknown" when the
\* frame has none.
requestWillBeSent(type, redirected, redirect_response, body) ==
    LET request_type == IF type = Missing THEN "unknown" ELSE Lower(type)
    IN /\ Len(hops) < MaxNav
       /\ IF /\ request_type \notin options.ignore_types
             /\ get_request_obj(request_type)
             /\ redirected
          THEN /\ add_response(redirect_response, request_type, body)
               /\ created' = created \cup request_items(request_type)
                                     \cup response_items(request_type, body)
          ELSE /\ created' = created \cup request_items(request_type)
               /\ UNCHANGED <<webscreenshot, recorded, hops>>
       /\ UNCHANGED <<options, outVars, muxVars, tabVars, settleVars, shotVars, poolVars, stopVars>>

\* webscreenshot.py:126-131: the last entry's url; IndexError on an empty
\* history and KeyError on an entry without the key give self.url.
final_url_first(w) ==
    LET h == w.navigation_history
    IN IF Len(h) >= 1 /\ "url" \in DOMAIN h[1] THEN h[1].url ELSE w.url

final_url(w) ==
    LET h == w.navigation_history
    IN IF Len(h) >= 1 /\ "url" \in DOMAIN h[Len(h)] THEN h[Len(h)].url ELSE w.url

\* webscreenshot.py:133-138: the last entry's status, 0 on IndexError/KeyError.
status_code(w) ==
    LET h == w.navigation_history
    IN IF Len(h) >= 1 /\ "status" \in DOMAIN h[Len(h)] THEN h[Len(h)].status ELSE 0

\* A record of a browser with either setting of capture_responses.
InitAnyRecord ==
    /\ InitMux /\ InitTabs /\ InitSettle /\ InitShot /\ InitPool /\ InitStop
    /\ \E responses \in BOOLEAN :
          options = NewOptions(FALSE, responses, FALSE, FALSE, FALSE, FALSE, ignored_types)
    /\ webscreenshot = NewWebScreenshot
    /\ recorded = <<>>
    /\ hops = <<>>
    /\ created = {}
    /\ projection = {}
    /\ finisher = [t \in Tabs |-> "none"]
    /\ naming = NoNaming
    /\ raises = [t \in Tabs |-> {}]
    /\ startup = NoStartup

NextRecord ==
    \/ \E u \in PageUrls : navigate(u)
    \/ \E type \in ResourceTypes, response \in Responses, body \in {"returned", "raised"} :
          responseReceived(type, response, body)
    \/ \E type \in ResourceTypes, redirected \in BOOLEAN, redirect \in Responses,
          body \in {"returned", "raised"} :
          requestWillBeSent(type, redirected, redirect, body)

SpecRecord == InitAnyRecord /\ [][NextRecord]_vars

\* C30: after any sequence of handled events, final_url is the url of the last
\* navigation-history entry, which is the url of the last document response
\* recorded, and the originating URL when there is no entry; status_code is the
\* status of the last entry, and 0 when there is none.
C30_FinalUrlAndStatusFollowLastEntry ==
    LET h == webscreenshot.navigation_history
        n == Len(h)
    IN /\ Len(recorded) = n
       /\ n = 0 => /\ final_url(webscreenshot) = webscreenshot.url
                   /\ status_code(webscreenshot) = 0
       /\ n > 0 => /\ final_url(webscreenshot) = h[n].url
                   /\ status_code(webscreenshot) = h[n].status
                   /\ h[n] = nav_item(recorded[n])

\* A redirect chain: two entries with different urls and statuses, the record's
\* final_url and status_code being those of the second, not the originating URL.
C30_Witness ==
    LET h == webscreenshot.navigation_history
    IN /\ Len(h) = 2
       /\ h[1].url # h[2].url /\ h[1].status = 302 /\ h[2].status = 200
       /\ webscreenshot.url = h[1].url
       /\ final_url(webscreenshot) = h[2].url
       /\ status_code(webscreenshot) = 200

\* The hops of a navigation: document responses that carry url and status, as
\* the engine writes them, each handled to the end.
HopsHandled ==
    \A i \in 1..Len(hops) :
        /\ hops[i].completed
        /\ {"url", "status"} \subseteq DOMAIN hops[i].response

WrittenTypes == {"Document", "Script", "script", "Image", "image", Missing}
ConfiguredSets == {ignored_types, {"Script"}, {"script", "Document"}, {}}

\* A record of a browser with any setting of requests, responses and
\* ignore_types (browser.py:90-98).
InitAnyIgnore ==
    /\ InitMux /\ InitTabs /\ InitSettle /\ InitShot /\ InitPool /\ InitStop
    /\ \E requests \in BOOLEAN, responses \in BOOLEAN, configured \in ConfiguredSets :
          options = NewOptions(requests, responses, FALSE, FALSE, FALSE, FALSE, configured)
    /\ webscreenshot = NewWebScreenshot
    /\ recorded = <<>>
    /\ hops = <<>>
    /\ created = {}
    /\ projection = {}
    /\ finisher = [t \in Tabs |-> "none"]
    /\ naming = NoNaming
    /\ raises = [t \in Tabs |-> {}]
    /\ startup = NoStartup

NextIgnore ==
    \/ \E type \in WrittenTypes, body \in {"returned", "raised"} :
          responseReceived(type, [url |-> "u1", status |-> 200], body)
    \/ \E type \in WrittenTypes, redirected \in BOOLEAN, body \in {"returned", "raised"} :
          requestWillBeSent(type, redirected, [url |-> "u1", status |-> 302, location |-> "u2"], body)

SpecIgnore == InitAnyIgnore /\ [][NextIgnore]_vars

\* Two type strings that differ at most in the case of their letters
CaseFolded(t) ==
    CASE t \in {"Document", "document"} -> "DOCUMENT"
      [] t \in {"Script", "script"} -> "SCRIPT"
      [] t \in {"Image", "image"} -> "IMAGE"
      [] t \in {"Media", "media"} -> "MEDIA"
      [] t \in {"Font", "font"} -> "FONT"
      [] t \in {"Stylesheet", "stylesheet"} -> "STYLESHEET"
      [] OTHER -> t

\* C32: nothing in the record - network-log entry, recorded request, recorded
\* response or navigation entry - was added under a type that equals, letter
\* case aside, a type of the configured ignore set.
C32_NothingCreatedFromIgnoredType ==
    /\ \A item \in created : \A t \in options.ignore_types :
          CaseFolded(item.type) # CaseFolded(t)
    /\ (\E t \in options.ignore_types : CaseFolded(t) = "DOCUMENT") =>
          webscreenshot.navigation_history = <<>>

\* Scripts and documents are ignored and responses are not captured: a document
\* response was handed to add_response and dropped, while an event of another
\* type has left its entry in the record.
C32_Witness ==
    /\ options.ignore_types = {"script", "document"}
    /\ ~options.responses
    /\ Len(hops) >= 1 /\ ~hops[1].completed
    /\ webscreenshot.navigation_history = <<>>
    /\ [kind |-> "entry", type |-> "image"] \in created

\* ------------------------------------------------------ the JSON projection
\* webscreenshot.py:66-74: the keys json() always writes
json_always ==
    {"url", "final_url", "title", "status_code", "navigation_history",
     "network_history", "perception_hash"}

\* webscreenshot.py:66-81: the keys of the dict json() returns
json_keys(o) ==
    json_always
        \cup (IF o.base64 THEN {"image_base64"} ELSE {})
        \cup (IF o.dom THEN {"dom"} ELSE {})
        \cup (IF o.javascript THEN {"scripts"} ELSE {})

\* webscreenshot.py:59-81: json().  The wait at 61-62 is on the record's own
\* semaphore, which only add_history (webscreenshot.py:87) takes and nothing
\* calls: its value is 25 and wait_for returns at once.
json ==
    /\ projection' = json_keys(options)
    /\ UNCHANGED <<webscreenshot, recorded, hops, options, created, finisher, naming, raises, startup>>
    /\ UNCHANGED <<muxVars, tabVars, settleVars, shotVars, poolVars, stopVars>>

\* A record of a browser with any setting of the six capture options.
InitAnyOptions ==
    /\ InitMux /\ InitTabs /\ InitSettle /\ InitShot /\ InitPool /\ InitStop
    /\ \E requests \in BOOLEAN, responses \in BOOLEAN, javascript \in BOOLEAN,
          base64 \in BOOLEAN, dom \in BOOLEAN, ocr \in BOOLEAN :
          options = NewOptions(requests, responses, javascript, base64, dom, ocr, ignored_types)
    /\ webscreenshot = NewWebScreenshot
    /\ recorded = <<>>
    /\ hops = <<>>
    /\ created = {}
    /\ projection = {}
    /\ finisher = [t \in Tabs |-> "none"]
    /\ naming = NoNaming
    /\ raises = [t \in Tabs |-> {}]
    /\ startup = NoStartup

\* json() is called on a record that has been through navigate (tab.py:186).
NextJson ==
    \/ \E u \in PageUrls : navigate(u)
    \/ webscreenshot.url # None /\ json

SpecJson == InitAnyOptions /\ [][NextJson]_vars

\* C33: the dict json() returns has each optional key exactly when its capture
\* option is on - dom, image_base64, javascript, requests, responses, ocr - and
\* always has url, final_url, title, status_code, navigation_history and
\* perception_hash.
C33_OptionalKeysFollowOptions ==
    projection # {} =>
        /\ {"url", "final_url", "title", "status_code", "navigation_history",
            "perception_hash"} \subseteq projection
        /\ "dom" \in projection <=> options.dom
        /\ "image_base64" \in projection <=> options.base64
        /\ "javascript" \in projection <=> options.javascript
        /\ "requests" \in projection <=> options.requests
        /\ "responses" \in projection <=> options.responses
        /\ "ocr" \in projection <=> options.ocr

\* json() has returned for a browser that captures scripts and responses: the
\* dict has "scripts" and no "javascript", and no "responses".
C33_Witness ==
    /\ projection # {}
    /\ options.javascript /\ options.responses
    /\ "scripts" \in projection
    /\ "javascript" \notin projection /\ "responses" \notin projection

\* ------------------------------------------------------ sanitize_filename
\* A string is the sequence of its characters.
MaxRuns == 3
FilenameLimit == 240
Letters == {"a", "Z"}
Digits == {"0", "9"}
Run(c, n) == [i \in 1..n |-> c]
\* The runs a URL string is put together from: long and short runs of a letter,
\* a dot, one or two hyphens, one or two slashes.
Runs ==
    {Run("a", n) : n \in {1, FilenameLimit - 1, FilenameLimit}}
        \cup {Run(".", 1)} \cup {Run("-", n) : n \in 1..2} \cup {Run("/", n) : n \in 1..2}

RECURSIVE Strings(_)
Strings(k) ==
    IF k = 0 THEN {<<>>}
    ELSE LET shorter == Strings(k - 1)
         IN shorter \cup {s \o r : s \in shorter, r \in Runs}

\* helpers.py:82, 91: every character outside [a-zA-Z0-9_.-] becomes "-"
sub_regex(filename) ==
    [i \in 1..Len(filename) |->
        IF filename[i] \in Letters \cup Digits \cup {"_", ".", "-"}
        THEN filename[i] ELSE "-"]

\* helpers.py:83, 93: every run of "-" becomes one "-"
AfterHyphen(p) == p[1] = "-" /\ p[2] = "-"
NotAfterHyphen(p) == ~AfterHyphen(p)
sub_regex_multiple(filename) ==
    LET paired == [i \in 1..Len(filename) |->
                      <<filename[i], IF i > 1 THEN filename[i - 1] ELSE "">>]
        kept == SelectSeq(paired, NotAfterHyphen)
    IN [i \in 1..Len(kept) |-> kept[i][1]]

\* pathlib on a string without separators: "" and "." have no name.
PathName(file_path) == IF file_path \in {<<>>, <<".">>} THEN <<>> ELSE file_path

\* str.rfind("."), counted from 1; 0 when there is none
LastDot(name) ==
    LET dots == {i \in 1..Len(name) : name[i] = "."}
    IN IF dots = {} THEN 0 ELSE CHOOSE i \in dots : \A j \in dots : j <= i

\* PurePath.suffix: from the last dot, unless that is the first or the last
\* character of the name
PathSuffix(name) ==
    LET i == LastDot(name)
    IN IF 1 < i /\ i < Len(name) THEN SubSeq(name, i, Len(name)) ELSE <<>>

\* PurePath.stem
PathStem(name) ==
    LET i == LastDot(name)
    IN IF 1 < i /\ i < Len(name) THEN SubSeq(name, 1, i - 1) ELSE name

\* str(Path(".") / name)
PathStr(name) == IF name \in {<<>>, <<".">>} THEN <<".">> ELSE name

\* helpers.py:209-223 for a path of one component; raised stands for the
\* ValueError of line 215.
truncate_filename(file_path, max_length) ==
    LET stem == PathStem(PathName(file_path))
        suffix == PathSuffix(PathName(file_path))
        max_filename_length == max_length - Len(suffix)
        truncated_stem == IF Len(stem) > max_filename_length
                          THEN SubSeq(stem, 1, max_filename_length) ELSE stem
    IN IF max_filename_length <= 0
       THEN [raised |-> TRUE, path |-> <<>>]
       ELSE [raised |-> FALSE, path |-> PathStr(truncated_stem \o suffix)]

\* helpers.py:86-95
sanitize_filename(filename) ==
    truncate_filename(sub_regex_multiple(sub_regex(filename)), FilenameLimit)

\* The call, from its argument to its return or its exception.
sanitize ==
    /\ naming.pc = "called"
    /\ LET r == sanitize_filename(naming.filename)
       IN naming' = [naming EXCEPT !.pc = IF r.raised THEN "raised" ELSE "returned",
                                   !.out = r.path]
    /\ UNCHANGED <<webscreenshot, recorded, hops, options, created, projection, finisher, raises, startup>>
    /\ UNCHANGED <<muxVars, tabVars, settleVars, shotVars, poolVars, stopVars>>

\* sanitize_filename called with any string of at most MaxRuns runs.
InitAnyName ==
    /\ InitMux /\ InitTabs /\ InitSettle /\ InitShot /\ InitPool /\ InitStop
    /\ webscreenshot = NewWebScreenshot
    /\ options = OptionDefaults
    /\ recorded = <<>>
    /\ hops = <<>>
    /\ created = {}
    /\ projection = {}
    /\ finisher = [t \in Tabs |-> "none"]
    /\ \E filename \in Strings(MaxRuns) :
          naming = [filename |-> filename, pc |-> "called", out |-> <<>>]
    /\ raises = [t \in Tabs |-> {}]
    /\ startup = NoStartup

NextName == sanitize

SpecName == InitAnyName /\ [][NextName]_vars

\* C34: every call of sanitize_filename returns, and the name it returns has
\* only letters, digits, "_", "." and "-", no two "-" in a row, and at most 240
\* characters.
C34_SanitizedNameIsPathSafe ==
    naming.pc \notin {"none", "called"} =>
        /\ naming.pc = "returned"
        /\ \A i \in 1..Len(naming.out) :
              /\ naming.out[i] \in Letters \cup Digits \cup {"_", ".", "-"}
              /\ i > 1 => ~(naming.out[i] = "-" /\ naming.out[i - 1] = "-")
        /\ Len(naming.out) <= 240

\* "a." followed by 240 letters: the suffix alone is longer than the limit and
\* the call has raised ValueError.
C34_Witness ==
    /\ naming.filename = Run("a", 1) \o Run(".", 1) \o Run("a", 240)
    /\ naming.pc = "raised"

\* C35: the waits of one request(retry=true) call, in units of 100 ms, add up
\* to at most 64 (6.4 s), however many of its attempts fail.
C35_BackOffWaitsWithinLimit ==
    \A c \in Retrying : req[c].slept <= 64 * InitialRetryDelay

\* All seven attempts were answered with an error: the call has slept
\* 1 + 2 + 4 + 8 + 16 + 32 + 64 units, the last 64 after the seventh attempt,
\* and has returned the error dict.
C35_Witness ==
    \E c \in Retrying :
        /\ req[c].pc = "returned" /\ req[c].out = "errdict"
        /\ Cardinality(FramesOf(c)) = 7
        /\ req[c].slept = 127 * InitialRetryDelay

\* ------------------------------------------------------ waiting for the tokens
\* tab.py:24-25, 84: handle_event holds one token of the tab's semaphore from
\* its entry to its return; handle_events runs one handle_event at a time, so
\* a token is out exactly while the worker awaits a follow-up call.
initial_semaphore_value == 25
semaphore_value(t) ==
    initial_semaphore_value - (IF worker[t].pc = "followup" THEN 1 ELSE 0)

\* tab.py:209-211: Condition.wait_for tests the predicate and, when it is
\* false, waits to be notified.  No code calls notify on _done_condition, so a
\* call that has begun to wait is never resumed.
wait_for_finish(t) ==
    /\ tab[t].pc = "live"
    /\ finisher[t] = "none"
    /\ finisher' = [finisher EXCEPT ![t] =
                       IF semaphore_value(t) = initial_semaphore_value
                       THEN "returned" ELSE "waiting"]
    /\ UNCHANGED <<webscreenshot, recorded, hops, options, created, projection, naming, raises, startup>>
    /\ UNCHANGED <<muxVars, tabVars, settleVars, shotVars, poolVars, stopVars>>

\* One tab, its worker and the calls that wait for its tokens.
NextWait ==
    \/ start
    \/ tab_step("t1")
    \/ \E th \in {"t1", WorkerOf["t1"]} : call_sent(th) \/ call_done(th)
    \/ nevents < MaxTabEvents /\ engine_event(TabEventMethods, SessionIds)
    \/ message_handler_recv
    \/ wait_for_finish("t1")
    \/ tab["t1"].pc = "live" /\ projection = {} /\ json

SpecWait == Init /\ [][NextWait]_vars

\* The worker, its follow-up call and the pump are tasks of the event loop.
SpecWaitFair ==
    /\ SpecWait
    /\ WF_vars(worker_get("t1")) /\ WF_vars(worker_followup_done("t1"))
    /\ WF_vars(call_sent(WorkerOf["t1"])) /\ WF_vars(call_done(WorkerOf["t1"]))
    /\ WF_vars(message_handler_recv)

\* C37: json() does not return while a token of the tab is out, and a
\* wait_for_finish() call that waits completes once the tokens are back.
C37_WaitersCompleteWhenTokensReturned ==
    /\ [][projection' # projection => worker["t1"].pc # "followup"]_vars
    /\ (finisher["t1"] = "waiting" /\ worker["t1"].pc # "followup")
           ~> (finisher["t1"] = "returned")

\* The follow-up call is over and the token is back, the worker waits for the
\* next event, and wait_for_finish() still waits; json() has returned.
C37_Witness ==
    /\ finisher["t1"] = "waiting"
    /\ worker["t1"].pc = "get" /\ Len(handled["t1"]) >= 1
    /\ semaphore_value("t1") = initial_semaphore_value
    /\ projection # {}

\* C36: once the handling of an event has raised in a tab's worker, the worker
\* is still running unless the tab has been closed, no event put on the tab's
\* queue is lost or handled out of order, and every event put on the queue is
\* handled in the end unless the tab is closed first.
C36_WorkerSurvivesRaisingEvent ==
    /\ [](\A t \in Tabs : raises[t] # {} =>
             /\ worker[t].pc = "exited" => tab[t].closed
             /\ delivered[t] = handled[t] \o InHand(t) \o queue[t])
    /\ \A k \in 1..MaxTabEvents :
          (raises["t1"] # {} /\ Len(delivered["t1"]) >= k)
              ~> (Len(handled["t1"]) >= k \/ tab["t1"].closed)

\* The follow-up call of the first event raised; the worker has since handled
\* the second event of the open tab.
C36_Witness ==
    /\ raises["t1"] = {1}
    /\ Len(handled["t1"]) = 2 /\ handled["t1"] = delivered["t1"]
    /\ ~tab["t1"].closed /\ worker["t1"].pc = "get"

\* ------------------------------------------------------ start-up
MaxPolls == 12
\* What Popen.poll() returns for an exited child: 0 or, for every other way of
\* ending, a value that is not 0.
ExitCodes == {0, 1}

\* browser.py:299-310: the child is started.
start_chrome ==
    /\ startup.pc = "none"
    /\ startup' = [startup EXCEPT !.pc = "loop"]
    /\ UNCHANGED <<webscreenshot, recorded, hops, options, created, projection, finisher, naming, raises>>
    /\ UNCHANGED <<muxVars, tabVars, settleVars, shotVars, poolVars, stopVars>>

\* The child begins to serve http://127.0.0.1:9222/json/version.
child_serves ==
    /\ startup.pc \in {"loop", "sleep"}
    /\ startup.return_code = {} /\ ~startup.serving
    /\ startup' = [startup EXCEPT !.serving = TRUE]
    /\ UNCHANGED <<webscreenshot, recorded, hops, options, created, projection, finisher, naming, raises>>
    /\ UNCHANGED <<muxVars, tabVars, settleVars, shotVars, poolVars, stopVars>>

\* The child exits with the given code; its endpoint goes with it.
child_exits(code) ==
    /\ startup.pc \in {"loop", "sleep"}
    /\ startup.return_code = {}
    /\ startup' = [startup EXCEPT !.return_code = {code}, !.serving = FALSE]
    /\ UNCHANGED <<webscreenshot, recorded, hops, options, created, projection, finisher, naming, raises>>
    /\ UNCHANGED <<muxVars, tabVars, settleVars, shotVars, poolVars, stopVars>>

\* browser.py:315-316: return_code is not None and return_code != 0
ExitedNonZero(return_code) == return_code # {} /\ return_code # {0}

\* browser.py:313-327: one iteration of the loop, up to its sleep: leave with
\* the URI, raise for a child that exited with a code other than 0, or ask the
\* endpoint and either get the URI or go to sleep.
start_chrome_poll ==
    /\ startup.pc = "loop"
    /\ startup' =
          IF startup.uri THEN [startup EXCEPT !.pc = "connect"]
          ELSE IF ExitedNonZero(startup.return_code) THEN [startup EXCEPT !.pc = "raised"]
          ELSE [startup EXCEPT !.uri = startup.serving,
                               !.pc = IF startup.serving THEN "loop" ELSE "sleep",
                               !.polls = IF @ < MaxPolls THEN @ + 1 ELSE @]
    /\ UNCHANGED <<webscreenshot, recorded, hops, options, created, projection, finisher, naming, raises>>
    /\ UNCHANGED <<muxVars, tabVars, settleVars, shotVars, poolVars, stopVars>>

\* browser.py:327: asyncio.sleep(0.1) is over.
start_chrome_sleep ==
    /\ startup.pc = "sleep"
    /\ startup' = [startup EXCEPT !.pc = "loop"]
    /\ UNCHANGED <<webscreenshot, recorded, hops, options, created, projection, finisher, naming, raises>>
    /\ UNCHANGED <<muxVars, tabVars, settleVars, shotVars, poolVars, stopVars>>

NextStartup ==
    \/ start_chrome
    \/ child_serves
    \/ \E code \in ExitCodes : child_exits(code)
    \/ start_chrome_poll
    \/ start_chrome_sleep

SpecStartup == Init /\ [][NextStartup]_vars

\* _start_chrome is a task of the event loop: its steps are taken.
SpecStartupFair ==
    SpecStartup /\ WF_vars(start_chrome_poll) /\ WF_vars(start_chrome_sleep)

\* C38: start-up leaves the polling loop: with the URI, or, once the child has
\* exited without the URI having been obtained, with a start-up failure.
C38_StartupLeavesThePollingLoop ==
    /\ startup.uri ~> (startup.pc = "connect")
    /\ (startup.pc \in {"loop", "sleep"} /\ ~startup.uri /\ startup.return_code # {})
           ~> (startup.pc = "raised")

\* The child exited with code 0 before it served the endpoint, and start-up
\* has polled MaxPolls times and sleeps before the next poll.
C38_Witness ==
    /\ startup.return_code = {0} /\ ~startup.uri
    /\ startup.polls = MaxPolls
    /\ startup.pc = "sleep"

\* ------------------------------------------- late responses, under Spec
\* The frame at the head of the channel answers a request whose awaiter has
\* timed out: asyncio.wait_for cancelled the future (browser.py:229) and the
\* entry is still in the pending map.
LateResponseAtHead ==
    /\ channel # <<>>
    /\ Head(channel).kind = "response"
    /\ Head(channel).id \in DOMAIN pending_requests
    /\ futures[pending_requests[Head(channel).id]].state = "cancelled"

\* C39: a response frame, result or error, that arrives for a request whose
\* awaiter has already timed out is discarded: the pump's step that reads it
\* removes the stale pending entry and goes on receiving (nothing was raised,
\* stop() is not run).
C39_LateResponseIsDiscarded ==
    [][(pump = "recv" /\ LateResponseAtHead /\ channel' = Tail(channel))
          => /\ Head(channel).id \notin DOMAIN pending_requests'
             /\ pump' = "recv"]_vars

\* The pump has read a late error frame: the call timed out, its frame was
\* answered and the answer is no longer in the channel, yet the entry is still
\* in the map and the pump has left its loop for stop().
C39_Witness ==
    /\ pump = "stopping"
    /\ \E th \in Threads :
          /\ req[th].pc = "raised" /\ req[th].out = "TimeoutError"
          /\ req[th].id \in DOMAIN pending_requests
          /\ req[th].id \in answered
          /\ \A i \in 1..Len(channel) :
                ~(channel[i].kind = "response" /\ channel[i].id = req[th].id)

\* ------------------------------------- event workers after screenshot()
\* The tasks of SpecShot are tasks of one event loop: a task that can take a
\* step takes it, and a request() that waits ends (at the latest by its
\* timeout).
SpecShotFair ==
    /\ SpecShot
    /\ \A t \in Tabs : WF_vars(shot_step(t)) /\ WF_vars(call_sent(t)) /\ WF_vars(call_done(t))

\* C40: once Browser.screenshot() for a URL has finished, the event worker of
\* its tab eventually terminates, whether the capture succeeded, failed or
\* timed out and whether or not Target.closeTarget was answered.
C40_WorkerEndsAfterScreenshot ==
    \A t \in Tabs :
        (shot[t].pc = "done" /\ worker[t].pc # "none") ~> (worker[t].pc = "exited")

\* Every screenshot() of the batch has finished, one of them by the load
\* timeout and one after a Target.closeTarget that was not answered, and both
\* workers still wait on their queues.
C40_Witness ==
    /\ \A t \in Tabs : shot[t].pc = "done" /\ worker[t].pc = "get" /\ queue[t] = <<>>
    /\ \E t \in Tabs : shot[t].timed_out /\ ~shot[t].assigned /\ t \notin close_issued
    /\ \E t \in Tabs : tab[t].pc = "close_failed" /\ ~tab[t].closed

====
